---- MODULE Spec2Model ----
(***************************************************************************)
(* Model of the journal front end (frontend/src: JournalDetailsPage and    *)
(* ArticleEditPage) together with the storage collaborator it talks to.    *)
(*                                                                         *)
(* Spec      the journal page: loadData, onSubmit (create article),        *)
(*           moveSequenceItem, saveSequence, against the collaborator.     *)
(* MoveSpec  the loaded journal page with every pair (articles,            *)
(*           sequenceIds) of lists, and moveSequenceItem applied to it.    *)
(* EditSpec  the article edit page: loadArticle, title/slug/editor edits,  *)
(*           editor attachment, onSubmit.                                  *)
(* NavSpec   the App router around the edit page: navigate, popstate,      *)
(*           beforeunload, the navigation guard, mount and unmount.        *)
(* LoadSpec  the loads of the journal page and of the article view page,   *)
(*           request by request, with the viewed article changing.         *)
(***************************************************************************)
EXTENDS Integers, Sequences, FiniteSets, TLC

\* MoveSpec: number of article ids the lists of the page are drawn from.
MaxArticles == 3
\* Spec: number of articles created on the journal page.
MaxCreates == 2
\* Spec: number of articles deleted behind the page's back.
MaxDeletes == 1
\* Spec: number of saveSequence calls.
MaxSaves == 1
\* Number of distinct non-empty values a title, a slug or a document takes.
MaxVal == 2
\* NavSpec: number of distinct non-empty values typed into the edit page.
MaxNavVal == 1
\* Number of disposed init() calls that await loadEditorScripts at a time.
MaxStaleInits == 1
\* LoadSpec: number of article ids the view page is routed to.
MaxViewIds == 2
\* LoadSpec: number of ArticleViewPage.loadArticle calls in flight at a time.
MaxViewLoads == 2

ArticleIds == 1..MaxArticles

VARIABLES
  \* storage collaborator
  serverArticles,   \* ids of the journal's articles, in listing order
  serverSeq,        \* persisted sequence of the journal
  nextId,           \* next article id the collaborator hands out
  deletes,          \* number of articles deleted so far
  saves,            \* number of saveSequence calls so far
  \* JournalDetailsPage state
  journal,          \* TRUE once setJournal received a journal
  articles,         \* ids of the articles state, in listing order
  sequenceIds,
  loading,
  error,            \* "none" (null) or the origin of the message shown
  submitting,
  savingSequence,
  loadPc,           \* position of the mount effect's loadData call
  submitPc,         \* position of onSubmit
  savePc,           \* position of saveSequence
  sentIds,          \* argument of the updateJournalSequence call in flight
  \* record of the calls made
  lastOp,           \* name of the handler step that ran last
  lastMove,         \* <<the moveSequenceItem call>> if the last step was one
  logMoves,         \* whether lastMove is kept
  replacedIds,      \* <<the sequenceIds replaced>> if the last step was the
                    \* reload that follows a creation
  failedRequests,   \* requests that rejected in the load that failed last
  disposedReturns,  \* init() calls that returned at "disposed" in the step
  confirmAnswers,   \* answers to the window.confirm dialogs of the step
  pushes,           \* history.pushState calls made by the step
  unloadPrevented,  \* whether the last beforeunload event was prevented
  wasDirty,         \* hasUnsavedChangesRef.current before the step
  \* ArticleEditPage state and the article it edits
  serverArticle,    \* the article as stored by the collaborator
  eLoading,
  eError,
  eSubmitting,
  savedMessage,
  title,
  slug,
  contentJson,      \* <<>> (null) or <<the document>>
  hasUnsavedChanges,
  editorPc,         \* "none", "init" (loadEditorScripts in flight), "attached"
  editorDoc,        \* document held by the attached editor
  eLoadPc,          \* position of loadArticle
  eSubmitPc,        \* position of ArticleEditPage.onSubmit
  payload,          \* <<argument of the updateArticle call in flight>>
  editorScripts,    \* state of the module-level editorScriptsPromise
  staleInits,       \* disposed init() calls of the mounted page in flight
  orphanInits,      \* init() calls of unmounted pages in flight
  liveEditors,      \* editors constructed and not destroyed
  \* App and the module-level navigation guard
  location,         \* window.location.pathname, as its segments
  pathname,         \* App's pathname state (pathnameRef.current follows it)
  navigationGuard,  \* "none" (null), "current" (the mounted edit page's
                    \* guard) or "stale" (the guard of an unmounted page)
  \* ArticleViewPage state
  vArticleId,       \* the articleId prop
  vArticle,         \* 0 (null) or the id of the article state
  vNeighbors,       \* 0 or the id of the article neighbors belongs to
  vTitles,          \* 0 or the id of the article whose journal filled
                    \* articleTitleById and articlePreviewById
  vLoading,
  vError,
  vLoads,           \* loadArticle calls in flight: [id, pc]
  \* renderHighlightedText: its arguments and what it returned
  hText,
  hQuery,
  hResult,
  \* ArticleViewPage: reference resolution and rendering
  relatedArticles,    \* what listJournalArticles answers for the journal
  blocks,             \* article.content_json.blocks of the viewed article
  articleTitleById,
  articlePreviewById,
  blockHtml,
  \* the article search of the journal page and of the editor tools
  searching,
  searchResults,      \* ids of the articles of the searchResults state
  searchPc,           \* position of onSearchSubmit
  toolSearches,       \* editor tools awaiting searchJournalArticles
  toolEntries,        \* ids of the entries array of the IndexListTool
  alertText,          \* message of the window.alert of the last step
  unhandledRejection  \* the last step ended in a rejection nobody handles

serverVars == <<serverArticles, serverSeq, nextId, deletes>>
journalVars == <<journal, articles, sequenceIds, loading, error, submitting,
                 savingSequence, loadPc, submitPc, savePc, sentIds, saves>>
editVars == <<serverArticle, eLoading, eError, eSubmitting, savedMessage,
              title, slug, contentJson, hasUnsavedChanges, editorPc,
              editorDoc, eLoadPc, eSubmitPc, payload, editorScripts,
              staleInits, orphanInits, liveEditors>>
navVars == <<location, pathname, navigationGuard>>
viewVars == <<vArticleId, vArticle, vNeighbors, vTitles, vLoading, vError,
              vLoads>>
highlightVars == <<hText, hQuery, hResult>>
renderVars == <<relatedArticles, blocks, articleTitleById, articlePreviewById,
                blockHtml>>
searchVars == <<searching, searchResults, searchPc, toolSearches, toolEntries,
                alertText, unhandledRejection>>
toolVars == <<highlightVars, renderVars, searchVars>>
pageVars == <<editVars, navVars, viewVars, toolVars>>
logVars == <<disposedReturns, confirmAnswers, pushes, unloadPrevented,
            wasDirty>>
vars == <<serverVars, journalVars, lastOp, lastMove, logMoves, failedRequests,
          replacedIds,
          logVars, pageVars>>

----------------------------------------------------------------------------
\* Sequences of ids

Range(s) == {s[i] : i \in DOMAIN s}

\* Array.prototype.includes / some(article => article.id === id)
Includes(s, x) == x \in Range(s)

DupFree(s) == \A i, j \in DOMAIN s : i # j => s[i] # s[j]

DupFreeSeqs(S) ==
  {s \in UNION {[1..n -> S] : n \in 0..Cardinality(S)} : DupFree(s)}

\* copy.splice(index, 1) with a 0-based index: the array without that element
RemoveAt(s, index) == SubSeq(s, 1, index) \o SubSeq(s, index + 2, Len(s))

\* copy.splice(index, 0, x) with a 0-based index
InsertAt(s, index, x) ==
  SubSeq(s, 1, index) \o <<x>> \o SubSeq(s, index + 1, Len(s))

----------------------------------------------------------------------------
\* JournalDetailsPage: pure parts

\* Mutant: the ids of sequenceIds are not looked up among the articles.
sequenceArticles_keepsStale(arts, seqIds) ==
  seqIds \o SelectSeq(arts, LAMBDA id : ~Includes(seqIds, id))

\* Mutant: the sequenced articles are shown in listing order.
sequenceArticles_listingOrder(arts, seqIds) ==
  SelectSeq(arts, LAMBDA id : Includes(seqIds, id))
    \o SelectSeq(arts, LAMBDA id : ~Includes(seqIds, id))

\* Mutant: the unsequenced articles are put first.
sequenceArticles_missingFirst(arts, seqIds) ==
  SelectSeq(arts, LAMBDA id : ~Includes(seqIds, id))
    \o SelectSeq(seqIds, LAMBDA id : Includes(arts, id))

\* The useMemo sequenceArticles, as the ids of the articles it returns:
\* ordered = sequenceIds mapped through byId with the misses filtered out,
\* missing = the articles whose id is not in sequenceIds.
sequenceArticles(arts, seqIds) ==
  LET ordered == SelectSeq(seqIds, LAMBDA id : Includes(arts, id))
      missing == SelectSeq(arts, LAMBDA id : ~Includes(seqIds, id))
  IN  ordered \o missing

\* Mutant: the check nextIndex < 0 is missing, so that splice(-1, 0, moved)
\* inserts the first element before the last one.
moveSequenceItem_noLowerCheck(current, arts, index, direction) ==
  LET orderedIds ==
        SelectSeq(current, LAMBDA id : Includes(arts, id))
          \o SelectSeq(arts, LAMBDA id : ~Includes(current, id))
      nextIndex == index + direction
  IN  IF index < 0 \/ index >= Len(orderedIds) \/ nextIndex >= Len(orderedIds)
      THEN orderedIds
      ELSE LET moved == orderedIds[index + 1]
               copy  == RemoveAt(orderedIds, index)
           IN  IF nextIndex >= 0
               THEN InsertAt(copy, nextIndex, moved)
               ELSE IF Len(copy) = 0
                    THEN <<moved>>
                    ELSE InsertAt(copy, Len(copy) - 1, moved)

\* Mutant: the element is put back where it was taken from.
moveSequenceItem_insertsAtIndex(current, arts, index, direction) ==
  LET orderedIds ==
        SelectSeq(current, LAMBDA id : Includes(arts, id))
          \o SelectSeq(arts, LAMBDA id : ~Includes(current, id))
      nextIndex == index + direction
  IN  IF index < 0 \/ index >= Len(orderedIds)
         \/ nextIndex < 0 \/ nextIndex >= Len(orderedIds)
      THEN orderedIds
      ELSE LET moved == orderedIds[index + 1]
               copy  == RemoveAt(orderedIds, index)
           IN  InsertAt(copy, index, moved)

\* Mutant: a move down puts the element at the end of the list.
moveSequenceItem_downToEnd(current, arts, index, direction) ==
  LET orderedIds ==
        SelectSeq(current, LAMBDA id : Includes(arts, id))
          \o SelectSeq(arts, LAMBDA id : ~Includes(current, id))
      nextIndex == index + direction
  IN  IF index < 0 \/ index >= Len(orderedIds)
         \/ nextIndex < 0 \/ nextIndex >= Len(orderedIds)
      THEN orderedIds
      ELSE LET moved == orderedIds[index + 1]
               copy  == RemoveAt(orderedIds, index)
           IN  IF direction = 1
               THEN Append(copy, moved)
               ELSE InsertAt(copy, nextIndex, moved)

\* Mutant: the order is not recomputed; the index is applied to the current
\* sequenceIds as they are.
moveSequenceItem_currentOrder(current, arts, index, direction) ==
  LET orderedIds == current
      nextIndex == index + direction
  IN  IF index < 0 \/ index >= Len(orderedIds)
         \/ nextIndex < 0 \/ nextIndex >= Len(orderedIds)
      THEN orderedIds
      ELSE LET moved == orderedIds[index + 1]
               copy  == RemoveAt(orderedIds, index)
           IN  InsertAt(copy, nextIndex, moved)

\* Mutant: the ids that no article has are kept in the recomputed order.
moveSequenceItem_keepsStale(current, arts, index, direction) ==
  LET orderedIds ==
        current \o SelectSeq(arts, LAMBDA id : ~Includes(current, id))
      nextIndex == index + direction
  IN  IF index < 0 \/ index >= Len(orderedIds)
         \/ nextIndex < 0 \/ nextIndex >= Len(orderedIds)
      THEN orderedIds
      ELSE LET moved == orderedIds[index + 1]
               copy  == RemoveAt(orderedIds, index)
           IN  InsertAt(copy, nextIndex, moved)

\* The updater passed to setSequenceIds by moveSequenceItem(index, direction);
\* index is 0-based as in the source.
moveSequenceItem(current, arts, index, direction) ==
  LET orderedIds ==
        SelectSeq(current, LAMBDA id : Includes(arts, id))
          \o SelectSeq(arts, LAMBDA id : ~Includes(current, id))
      nextIndex == index + direction
  IN  IF index < 0 \/ index >= Len(orderedIds)
         \/ nextIndex < 0 \/ nextIndex >= Len(orderedIds)
      THEN orderedIds
      ELSE LET moved == orderedIds[index + 1]
               copy  == RemoveAt(orderedIds, index)
           IN  InsertAt(copy, nextIndex, moved)

\* Indices a caller may pass: every position of a list and one step outside.
Indices(arts) == (0 - 1)..Len(arts)
Directions == {0 - 1, 1}

----------------------------------------------------------------------------
\* Storage collaborator (interfaces only; behaviour as the spec states it)

\* createArticle: a fresh id; the article is listed after the existing ones
\* (creation order) and the persisted sequence is left alone.
CreateArticleListing(listing, id) == Append(listing, id)

\* setSequence answers with its canonical order: the ids it was sent,
\* possibly reordered, possibly with some of them dropped; never repeated.
SetSequenceResponses(sent) == DupFreeSeqs(Range(sent))

\* History: the step that ran was handler step op, and no moveSequenceItem.
Did(op) ==
  /\ lastOp' = op
  /\ lastMove' = <<>>
  /\ replacedIds' = <<>>
  /\ failedRequests' = {}
  /\ UNCHANGED <<logMoves, logVars>>

\* An article is deleted behind the page's back (another tab, another
\* client); the persisted sequence keeps the stale id.
ExternalDelete ==
  /\ deletes < MaxDeletes
  /\ deletes' = deletes + 1
  /\ \E id \in Range(serverArticles) :
       serverArticles' = SelectSeq(serverArticles, LAMBDA a : a # id)
  /\ Did("externalDelete")
  /\ UNCHANGED <<serverSeq, nextId, journalVars, pageVars>>

----------------------------------------------------------------------------
\* JournalDetailsPage: handlers

\* useEffect(() => { void loadData() }, [journalId]); loadData up to its
\* await: setLoading(true), setError(null), three requests issued.
LoadDataStart ==
  /\ loadPc = "effect"
  /\ loading' = TRUE
  /\ error' = "none"
  /\ loadPc' = "pending"
  /\ Did("loadDataStart")
  /\ UNCHANGED <<serverVars, journal, articles, sequenceIds, submitting,
                 savingSequence, submitPc, savePc, sentIds, saves, pageVars>>

\* Promise.all resolved: the three setters run, then finally.
LoadDataOk ==
  /\ loadPc = "pending"
  /\ journal' = TRUE
  /\ articles' = serverArticles
  /\ sequenceIds' = serverSeq
  /\ loading' = FALSE
  /\ loadPc' = "done"
  /\ Did("loadDataOk")
  /\ UNCHANGED <<serverVars, error, submitting, savingSequence, submitPc,
                 savePc, sentIds, saves, pageVars>>

\* The three requests of loadData's Promise.all.
LoadDataRequests == {"getJournal", "listJournalArticles", "getJournalSequence"}

\* Mutant: the results of the fulfilled requests are used although others
\* rejected.
PromiseAllUsed_settled(requests, failed) == requests \ failed

\* await Promise.all(requests) when the requests in failed reject: the
\* requests whose results the code after the await gets to use.
PromiseAllUsed(requests, failed) == IF failed = {} THEN requests ELSE {}

\* Promise.all rejected because the requests in failed rejected: the code
\* after the await is skipped; catch, finally.
LoadDataFail(failed) ==
  /\ loadPc = "pending"
  /\ failed # {}
  /\ journal' =
       IF "getJournal" \in PromiseAllUsed(LoadDataRequests, failed)
       THEN TRUE ELSE journal
  /\ articles' =
       IF "listJournalArticles" \in PromiseAllUsed(LoadDataRequests, failed)
       THEN serverArticles ELSE articles
  /\ sequenceIds' =
       IF "getJournalSequence" \in PromiseAllUsed(LoadDataRequests, failed)
       THEN serverSeq ELSE sequenceIds
  /\ error' = "load"
  /\ loading' = FALSE
  /\ loadPc' = "done"
  /\ lastOp' = "loadDataFail"
  /\ lastMove' = <<>>
  /\ replacedIds' = <<>>
  /\ failedRequests' = failed
  /\ UNCHANGED <<serverVars, submitting, savingSequence, submitPc, savePc,
                 sentIds, saves, pageVars, logMoves, logVars>>

\* onSubmit up to the await of createArticle. The form is rendered once
\* journal is set and its button is disabled while submitting.
OnSubmitStart ==
  /\ journal
  /\ ~submitting
  /\ submitPc = "idle"
  /\ submitting' = TRUE
  /\ error' = "none"
  /\ submitPc' = "creating"
  /\ Did("onSubmitStart")
  /\ UNCHANGED <<serverVars, journal, articles, sequenceIds, loading,
                 savingSequence, loadPc, savePc, sentIds, saves, pageVars>>

\* Mutant: the new article is also appended to the persisted sequence.
OnSubmitCreated_sequenced ==
  /\ submitPc = "creating"
  /\ nextId <= MaxCreates
  /\ serverArticles' = Append(serverArticles, nextId)
  /\ serverSeq' = Append(serverSeq, nextId)
  /\ nextId' = nextId + 1
  /\ loading' = TRUE
  /\ error' = "none"
  /\ submitPc' = "reloading"
  /\ Did("onSubmitCreated")
  /\ UNCHANGED <<deletes, journal, articles, sequenceIds, submitting,
                 savingSequence, loadPc, savePc, sentIds, saves, pageVars>>

\* createArticle resolved: the form fields are reset and loadData is called,
\* which runs to its own await.
OnSubmitCreated ==
  /\ submitPc = "creating"
  /\ nextId <= MaxCreates
  /\ serverArticles' = CreateArticleListing(serverArticles, nextId)
  /\ nextId' = nextId + 1
  /\ loading' = TRUE
  /\ error' = "none"
  /\ submitPc' = "reloading"
  /\ Did("onSubmitCreated")
  /\ UNCHANGED <<serverSeq, deletes, journal, articles, sequenceIds,
                 submitting, savingSequence, loadPc, savePc, sentIds, saves,
                 pageVars>>

\* createArticle rejected: catch, finally.
OnSubmitCreateFail ==
  /\ submitPc = "creating"
  /\ error' = "create"
  /\ submitting' = FALSE
  /\ submitPc' = "idle"
  /\ Did("onSubmitCreateFail")
  /\ UNCHANGED <<serverVars, journal, articles, sequenceIds, loading,
                 savingSequence, loadPc, savePc, sentIds, saves, pageVars>>

\* History: the step that ran was the reload of onSubmit, which found the
\* sequenceIds that replacedIds holds.
ReloadDid ==
  /\ lastOp' = "onSubmitReloadOk"
  /\ lastMove' = <<>>
  /\ failedRequests' = {}
  /\ replacedIds' = <<sequenceIds>>
  /\ UNCHANGED <<logMoves, logVars>>

\* Mutant: the reload keeps the sequenceIds of the page.
OnSubmitReloadOk_keepsLocal ==
  /\ submitPc = "reloading"
  /\ journal' = TRUE
  /\ articles' = serverArticles
  /\ loading' = FALSE
  /\ submitting' = FALSE
  /\ submitPc' = "idle"
  /\ ReloadDid
  /\ UNCHANGED <<serverVars, error, savingSequence, loadPc, savePc, sentIds,
                 saves, pageVars, sequenceIds>>

\* The loadData awaited by onSubmit resolved; onSubmit's finally follows.
OnSubmitReloadOk ==
  /\ submitPc = "reloading"
  /\ journal' = TRUE
  /\ articles' = serverArticles
  /\ sequenceIds' = serverSeq
  /\ loading' = FALSE
  /\ submitting' = FALSE
  /\ submitPc' = "idle"
  /\ ReloadDid
  /\ UNCHANGED <<serverVars, error, savingSequence, loadPc, savePc, sentIds,
                 saves, pageVars>>

\* The loadData awaited by onSubmit failed: loadData catches the error
\* itself, so onSubmit continues to its finally.
OnSubmitReloadFail ==
  /\ submitPc = "reloading"
  /\ error' = "load"
  /\ loading' = FALSE
  /\ submitting' = FALSE
  /\ submitPc' = "idle"
  /\ Did("onSubmitReloadFail")
  /\ UNCHANGED <<serverVars, journal, articles, sequenceIds, savingSequence,
                 loadPc, savePc, sentIds, saves, pageVars>>

\* History of a moveSequenceItem(index, direction) call: its arguments, the
\* sequenceIds it found, and in undoOf the sequenceIds found by the call
\* before it when that call was an in-bounds (index - 1, +1) which this call,
\* being (index, -1), undoes.
MoveRecord(index, direction) ==
  [index |-> index, direction |-> direction, before |-> sequenceIds,
   undoOf |->
     IF /\ lastMove # <<>>
        /\ lastMove[1].direction = 1
        /\ direction = 0 - 1
        /\ index = lastMove[1].index + 1
        /\ lastMove[1].index >= 0
        /\ index < Len(sequenceArticles(articles, lastMove[1].before))
     THEN <<lastMove[1].before>>
     ELSE <<>>]

\* moveSequenceItem(index, direction): setSequenceIds with the updater.
\* The sequence editor is rendered once journal is set.
MoveSequenceItem(index, direction) ==
  /\ journal
  /\ sequenceIds' = moveSequenceItem(sequenceIds, articles, index, direction)
  /\ lastOp' = "moveSequenceItem"
  /\ lastMove' = IF logMoves THEN <<MoveRecord(index, direction)>> ELSE <<>>
  /\ replacedIds' = <<>>
  /\ failedRequests' = {}
  /\ UNCHANGED <<logMoves, logVars>>
  /\ UNCHANGED <<serverVars, journal, articles, loading, error, submitting,
                 savingSequence, loadPc, submitPc, savePc, sentIds, saves,
                 pageVars>>

\* saveSequence up to its await: the ids of the displayed order are sent.
\* The button is disabled while saving or when nothing is displayed.
SaveSequenceStart ==
  /\ journal
  /\ ~savingSequence
  /\ Len(sequenceArticles(articles, sequenceIds)) > 0
  /\ savePc = "idle"
  /\ saves < MaxSaves
  /\ saves' = saves + 1
  /\ savingSequence' = TRUE
  /\ error' = "none"
  /\ sentIds' = sequenceArticles(articles, sequenceIds)
  /\ savePc' = "saving"
  /\ Did("saveSequenceStart")
  /\ UNCHANGED <<serverVars, journal, articles, sequenceIds, loading,
                 submitting, loadPc, submitPc, pageVars>>

\* Mutant: the order that was sent is kept instead of the answer.
SaveSequenceOk_keepsSent ==
  /\ savePc = "saving"
  /\ \E result \in SetSequenceResponses(sentIds) : serverSeq' = result
  /\ sequenceIds' = sentIds
  /\ savingSequence' = FALSE
  /\ savePc' = "idle"
  /\ Did("saveSequenceOk")
  /\ UNCHANGED <<serverArticles, nextId, deletes, journal, articles, loading,
                 error, submitting, loadPc, submitPc, sentIds, saves,
                 pageVars>>

\* updateJournalSequence resolved with result.article_ids.
SaveSequenceOk ==
  /\ savePc = "saving"
  /\ \E result \in SetSequenceResponses(sentIds) :
       /\ serverSeq' = result
       /\ sequenceIds' = result
  /\ savingSequence' = FALSE
  /\ savePc' = "idle"
  /\ Did("saveSequenceOk")
  /\ UNCHANGED <<serverArticles, nextId, deletes, journal, articles, loading,
                 error, submitting, loadPc, submitPc, sentIds, saves,
                 pageVars>>

\* Mutant: a failed save reverts the local order to the persisted one.
SaveSequenceFail_reverts ==
  /\ savePc = "saving"
  /\ error' = "save"
  /\ sequenceIds' = serverSeq
  /\ savingSequence' = FALSE
  /\ savePc' = "idle"
  /\ Did("saveSequenceFail")
  /\ UNCHANGED <<serverVars, journal, articles, loading, submitting, loadPc,
                 submitPc, sentIds, saves, pageVars>>

\* updateJournalSequence rejected: catch, finally.
\* Mutant: a rejected setSequence leaves the page saving.
SaveSequenceFail_staysBusy ==
  /\ savePc = "saving"
  /\ error' = "save"
  /\ savePc' = "idle"
  /\ Did("saveSequenceFail")
  /\ UNCHANGED <<serverVars, journal, articles, sequenceIds, loading,
                 submitting, loadPc, submitPc, sentIds, saves, pageVars,
                 savingSequence>>

SaveSequenceFail ==
  /\ savePc = "saving"
  /\ error' = "save"
  /\ savingSequence' = FALSE
  /\ savePc' = "idle"
  /\ Did("saveSequenceFail")
  /\ UNCHANGED <<serverVars, journal, articles, sequenceIds, loading,
                 submitting, loadPc, submitPc, sentIds, saves, pageVars>>

----------------------------------------------------------------------------
\* ArticleEditPage

\* Values of a title, a slug or a document; 0 is the empty string and the
\* document { blocks: [] }.
Vals == 0..MaxVal
NavVals == 0..MaxNavVal
EmptyDoc == 0

\* Mutant: the ref is left as it is.
markUnsaved_keeps(current) == current

\* markUnsaved: the new value of hasUnsavedChangesRef.current.
markUnsaved(current) == TRUE

\* Mutant: init() goes on without looking at disposed.
InitConstructs_noCheck(disposed) == TRUE

\* init() resumed after loadEditorScripts: whether it goes on to construct
\* the editor (if (disposed || !window.EditorJS) return).
InitConstructs(disposed) == ~disposed

\* The editor effect (deps loading, contentJson, editorHolderId, journalId)
\* run after a commit with the given loading and contentJson. The cleanup of
\* the previous run comes first: its init() still awaiting the scripts is
\* disposed, its editor is destroyed, editorRef.current is null. Then the
\* new run returns early or calls init(), which awaits loadEditorScripts():
\* with the scripts loaded (or failed) before, init() resumes before any
\* other event; otherwise it stays in flight.
EditorEffect(isLoading, content) ==
  /\ editorPc = "init" => staleInits + orphanInits < MaxStaleInits
  /\ staleInits' = IF editorPc = "init" THEN staleInits + 1 ELSE staleInits
  /\ LET kept == IF editorPc = "attached" THEN liveEditors - 1
                 ELSE liveEditors
     IN IF isLoading \/ content = <<>> \/ editorScripts = "failed"
        THEN /\ editorPc' = "none"
             /\ editorDoc' = EmptyDoc
             /\ liveEditors' = kept
             /\ UNCHANGED editorScripts
        ELSE IF editorScripts = "loaded"
        THEN /\ editorPc' = "attached"
             /\ editorDoc' = content[1]
             /\ liveEditors' = kept + 1
             /\ UNCHANGED editorScripts
        ELSE /\ editorPc' = "init"
             /\ editorDoc' = EmptyDoc
             /\ liveEditors' = kept
             /\ editorScripts' = "loading"

\* The error state after the editor effect ran: init() that finds the cached
\* scripts promise rejected calls setError.
EffectError(isLoading, content, otherwise) ==
  IF ~isLoading /\ content # <<>> /\ editorScripts = "failed"
  THEN "editor"
  ELSE otherwise

otherVars == <<serverVars, journalVars, lastMove, logMoves, failedRequests,
               replacedIds,
               navVars, viewVars, toolVars>>

\* History: the step that ran was step op of the edit page.
EditDid(op) ==
  /\ lastOp' = op
  /\ disposedReturns' = 0
  /\ confirmAnswers' = <<>>
  /\ pushes' = 0
  /\ unloadPrevented' = FALSE
  /\ wasDirty' = hasUnsavedChanges

\* The load effect up to its await: setLoading(true), setError(null).
LoadArticleStart ==
  /\ eLoadPc = "effect"
  /\ eLoading' = TRUE
  /\ eError' = "none"
  /\ eLoadPc' = "pending"
  /\ EditDid("loadArticleStart")
  /\ EditorEffect(TRUE, contentJson)
  /\ UNCHANGED <<otherVars, serverArticle, eSubmitting, savedMessage, title,
                 slug, contentJson, hasUnsavedChanges, eSubmitPc, payload,
                 orphanInits>>

\* getArticle resolved.
LoadArticleOk ==
  /\ eLoadPc = "pending"
  /\ title' = serverArticle.title
  /\ slug' = serverArticle.slug
  /\ contentJson' = <<serverArticle.content>>
  /\ hasUnsavedChanges' = FALSE
  /\ eLoading' = FALSE
  /\ eLoadPc' = "done"
  /\ eError' = EffectError(FALSE, <<serverArticle.content>>, eError)
  /\ EditDid("loadArticleOk")
  /\ EditorEffect(FALSE, <<serverArticle.content>>)
  /\ UNCHANGED <<otherVars, serverArticle, eSubmitting, savedMessage,
                 eSubmitPc, payload, orphanInits>>

\* getArticle rejected: catch, finally.
LoadArticleFail ==
  /\ eLoadPc = "pending"
  /\ eError' = "load"
  /\ eLoading' = FALSE
  /\ eLoadPc' = "done"
  /\ EditDid("loadArticleFail")
  /\ EditorEffect(FALSE, contentJson)
  /\ UNCHANGED <<otherVars, serverArticle, eSubmitting, savedMessage, title,
                 slug, contentJson, hasUnsavedChanges, eSubmitPc, payload,
                 orphanInits>>

\* editorScriptsPromise resolved: every init() awaiting it resumes, the
\* disposed ones first. A disposed init() returns; the init() of the active
\* effect constructs the editor on contentJson and sets editorRef.current.
EditorInitOk ==
  /\ editorScripts = "loading"
  /\ editorScripts' = "loaded"
  /\ LET disposedBuilt == IF InitConstructs(TRUE) THEN staleInits ELSE 0
         orphanBuilt == IF InitConstructs(TRUE) THEN orphanInits ELSE 0
         ownBuilt == IF editorPc = "init" /\ InitConstructs(FALSE)
                     THEN 1 ELSE 0
     IN /\ liveEditors' = liveEditors + disposedBuilt + orphanBuilt + ownBuilt
        /\ editorPc' = IF ownBuilt = 1 THEN "attached"
                       ELSE IF disposedBuilt > 0 THEN "stale"
                       ELSE "none"
        /\ editorDoc' = IF ownBuilt = 1 THEN contentJson[1] ELSE EmptyDoc
        /\ disposedReturns' =
             (staleInits + orphanInits) - (disposedBuilt + orphanBuilt)
  /\ staleInits' = 0
  /\ orphanInits' = 0
  /\ lastOp' = "editorInitOk"
  /\ confirmAnswers' = <<>>
  /\ pushes' = 0
  /\ unloadPrevented' = FALSE
  /\ wasDirty' = hasUnsavedChanges
  /\ UNCHANGED <<otherVars, serverArticle, eLoading, eError, eSubmitting,
                 savedMessage, title, slug, contentJson, hasUnsavedChanges,
                 eLoadPc, eSubmitPc, payload>>

\* editorScriptsPromise rejected: every init() awaiting it lands in its
\* catch and calls setError, which shows on the mounted page; the rejected
\* promise stays cached.
EditorInitFail ==
  /\ editorScripts = "loading"
  /\ editorScripts' = "failed"
  /\ editorPc' = "none"
  /\ eError' = IF editorPc = "init" \/ staleInits > 0 THEN "editor" ELSE eError
  /\ staleInits' = 0
  /\ orphanInits' = 0
  /\ EditDid("editorInitFail")
  /\ UNCHANGED <<otherVars, serverArticle, eLoading, eSubmitting,
                 savedMessage, title, slug, contentJson, hasUnsavedChanges,
                 editorDoc, eLoadPc, eSubmitPc, payload, liveEditors>>

\* onChange of the title input (rendered when not loading).
EditTitle(v) ==
  /\ ~eLoading
  /\ v # title
  /\ title' = v
  /\ hasUnsavedChanges' = markUnsaved(hasUnsavedChanges)
  /\ savedMessage' = FALSE
  /\ EditDid("editTitle")
  /\ UNCHANGED <<otherVars, serverArticle, eLoading, eError, eSubmitting,
                 slug, contentJson, editorPc, editorDoc, eLoadPc, eSubmitPc,
                 payload, editorScripts, staleInits, orphanInits,
                 liveEditors>>

\* onChange of the slug input (rendered when not loading).
EditSlug(v) ==
  /\ ~eLoading
  /\ v # slug
  /\ slug' = v
  /\ hasUnsavedChanges' = markUnsaved(hasUnsavedChanges)
  /\ savedMessage' = FALSE
  /\ EditDid("editSlug")
  /\ UNCHANGED <<otherVars, serverArticle, eLoading, eError, eSubmitting,
                 title, contentJson, editorPc, editorDoc, eLoadPc, eSubmitPc,
                 payload, editorScripts, staleInits, orphanInits,
                 liveEditors>>

\* onChange of the attached editor: its document changed.
EditorChange(v) ==
  /\ editorPc = "attached"
  /\ v # editorDoc
  /\ editorDoc' = v
  /\ hasUnsavedChanges' = markUnsaved(hasUnsavedChanges)
  /\ savedMessage' = FALSE
  /\ EditDid("editorChange")
  /\ UNCHANGED <<otherVars, serverArticle, eLoading, eError, eSubmitting,
                 title, slug, contentJson, editorPc, eLoadPc, eSubmitPc,
                 payload, editorScripts, staleInits, orphanInits,
                 liveEditors>>

\* onSubmit up to its first await. The button is disabled while submitting
\* or loading and both inputs are required. With an editor attached the
\* handler awaits editor.save(); without one it calls updateArticle at once
\* with { blocks: [] }.
\* Mutant: without an editor, onSubmit sends the document that was loaded.
EditSubmitStart_sendsLoaded ==
  /\ ~eLoading
  /\ ~eSubmitting
  /\ eSubmitPc = "idle"
  /\ title # 0
  /\ slug # 0
  /\ eSubmitting' = TRUE
  /\ eError' = "none"
  /\ payload' = <<[title |-> title, slug |-> slug,
                   content |-> IF contentJson # <<>> THEN contentJson[1]
                               ELSE EmptyDoc]>>
  /\ eSubmitPc' = IF editorPc = "attached" THEN "editorSave" ELSE "updating"
  /\ EditDid("editSubmitStart")
  /\ UNCHANGED <<otherVars, serverArticle, eLoading, savedMessage, title,
                 slug, contentJson, hasUnsavedChanges, editorPc, editorDoc,
                 eLoadPc, editorScripts, staleInits, orphanInits,
                 liveEditors>>

EditSubmitStart ==
  /\ ~eLoading
  /\ ~eSubmitting
  /\ eSubmitPc = "idle"
  /\ title # 0
  /\ slug # 0
  /\ eSubmitting' = TRUE
  /\ eError' = "none"
  /\ payload' = <<[title |-> title, slug |-> slug, content |-> EmptyDoc]>>
  /\ eSubmitPc' = IF editorPc = "attached" THEN "editorSave" ELSE "updating"
  /\ EditDid("editSubmitStart")
  /\ UNCHANGED <<otherVars, serverArticle, eLoading, savedMessage, title,
                 slug, contentJson, hasUnsavedChanges, editorPc, editorDoc,
                 eLoadPc, editorScripts, staleInits, orphanInits,
                 liveEditors>>

\* editor.save() resolved with the editor's document; updateArticle is
\* called with the title and slug of the render that submitted.
EditorSaveOk ==
  /\ eSubmitPc = "editorSave"
  /\ payload' = <<[payload[1] EXCEPT !.content = editorDoc]>>
  /\ eSubmitPc' = "updating"
  /\ EditDid("editorSaveOk")
  /\ UNCHANGED <<otherVars, serverArticle, eLoading, eError, eSubmitting,
                 savedMessage, title, slug, contentJson, hasUnsavedChanges,
                 editorPc, editorDoc, eLoadPc, editorScripts, staleInits,
                 orphanInits, liveEditors>>

\* Mutant: the catch also drops the edits and clears the ref.
EditorSaveFail_resets ==
  /\ eSubmitPc = "editorSave"
  /\ eError' = "save"
  /\ eSubmitting' = FALSE
  /\ eSubmitPc' = "idle"
  /\ payload' = <<>>
  /\ title' = serverArticle.title
  /\ slug' = serverArticle.slug
  /\ hasUnsavedChanges' = FALSE
  /\ EditDid("editorSaveFail")
  /\ UNCHANGED <<otherVars, serverArticle, eLoading, savedMessage,
                 contentJson, editorPc, editorDoc, eLoadPc, editorScripts,
                 staleInits, orphanInits, liveEditors>>

\* editor.save() rejected: catch, finally.
EditorSaveFail ==
  /\ eSubmitPc = "editorSave"
  /\ eError' = "save"
  /\ eSubmitting' = FALSE
  /\ eSubmitPc' = "idle"
  /\ payload' = <<>>
  /\ EditDid("editorSaveFail")
  /\ UNCHANGED <<otherVars, serverArticle, eLoading, savedMessage, title,
                 slug, contentJson, hasUnsavedChanges, editorPc, editorDoc,
                 eLoadPc, editorScripts, staleInits, orphanInits,
                 liveEditors>>

\* updateArticle resolved with the stored article: setContentJson with its
\* content_json (a new object, so the editor effect runs again), the ref is
\* cleared.
UpdateArticleOk ==
  /\ eSubmitPc = "updating"
  /\ serverArticle' = payload[1]
  /\ savedMessage' = TRUE
  /\ contentJson' = <<payload[1].content>>
  /\ hasUnsavedChanges' = FALSE
  /\ eSubmitting' = FALSE
  /\ eSubmitPc' = "idle"
  /\ payload' = <<>>
  /\ eError' = EffectError(eLoading, <<payload[1].content>>, eError)
  /\ EditDid("updateArticleOk")
  /\ EditorEffect(eLoading, <<payload[1].content>>)
  /\ UNCHANGED <<otherVars, eLoading, title, slug, eLoadPc, orphanInits>>

\* Mutant: the catch clears the ref as a successful save does.
UpdateArticleFail_clears ==
  /\ eSubmitPc = "updating"
  /\ eError' = "save"
  /\ eSubmitting' = FALSE
  /\ eSubmitPc' = "idle"
  /\ payload' = <<>>
  /\ hasUnsavedChanges' = FALSE
  /\ EditDid("updateArticleFail")
  /\ UNCHANGED <<otherVars, serverArticle, eLoading, savedMessage, title,
                 slug, contentJson, editorPc, editorDoc, eLoadPc,
                 editorScripts, staleInits, orphanInits, liveEditors>>

\* updateArticle rejected: catch, finally.
UpdateArticleFail ==
  /\ eSubmitPc = "updating"
  /\ eError' = "save"
  /\ eSubmitting' = FALSE
  /\ eSubmitPc' = "idle"
  /\ payload' = <<>>
  /\ EditDid("updateArticleFail")
  /\ UNCHANGED <<otherVars, serverArticle, eLoading, savedMessage, title,
                 slug, contentJson, hasUnsavedChanges, editorPc, editorDoc,
                 eLoadPc, editorScripts, staleInits, orphanInits,
                 liveEditors>>

----------------------------------------------------------------------------
\* App: routes, the navigation guard, navigate, popstate, beforeunload

\* Paths are held as pathname.split('/').filter(Boolean). Of the segments
\* used, Number("1") is finite and Number("x") is NaN.
IsFiniteNumber(seg) == seg \in {"1"}
NumberOf(seg) == IF seg = "1" THEN 1 ELSE 0

parsePath(parts) ==
  IF Len(parts) = 1 /\ parts[1] = "journals"
  THEN [name |-> "journals", id |-> 0]
  ELSE IF Len(parts) = 2 /\ parts[1] = "journals" /\ IsFiniteNumber(parts[2])
  THEN [name |-> "journalDetails", id |-> NumberOf(parts[2])]
  ELSE IF Len(parts) = 2 /\ parts[1] = "articles" /\ IsFiniteNumber(parts[2])
  THEN [name |-> "articleView", id |-> NumberOf(parts[2])]
  ELSE IF /\ Len(parts) = 3
          /\ parts[1] = "articles"
          /\ parts[3] = "edit"
          /\ IsFiniteNumber(parts[2])
  THEN [name |-> "articleEdit", id |-> NumberOf(parts[2])]
  ELSE [name |-> "journals", id |-> 0]

\* The paths the user navigates to.
NavPaths ==
  { <<"journals">>, <<"journals", "1">>, <<"articles", "1">>,
    <<"articles", "1", "edit">>, <<"articles", "x", "edit">> }

\* App renders ArticleEditPage.
EditMounted == parsePath(pathname).name = "articleEdit"

\* canLeavePage(), with the answer window.confirm gets if the guard asks.
\* The guard reads the ref of the page that registered it.
canLeavePage(answer) ==
  IF navigationGuard = "none" THEN TRUE
  ELSE IF ~hasUnsavedChanges THEN TRUE
  ELSE answer

\* Whether a canLeavePage() call shows the confirm dialog.
GuardAsks == navigationGuard # "none" /\ hasUnsavedChanges

\* Mutant: the cleanup leaves the guard registered.
GuardCleanup_keeps(guard) == IF guard = "current" THEN "stale" ELSE guard

\* Cleanup of the guard effect: if (navigationGuard === guard)
\* setNavigationGuard(null); the value of navigationGuard afterwards.
GuardCleanup(guard) == IF guard = "current" THEN "none" ELSE guard

\* ArticleEditPage unmounts: the cleanups of its effects run; its state is
\* gone. A getArticle in flight resolves into the unmounted page; an
\* updateArticle in flight reaches the collaborator or not.
EditUnmount ==
  /\ editorPc = "init" => staleInits + orphanInits < MaxStaleInits
  /\ orphanInits' = orphanInits + staleInits
                      + (IF editorPc = "init" THEN 1 ELSE 0)
  /\ staleInits' = 0
  /\ liveEditors' = IF editorPc = "attached" THEN liveEditors - 1
                    ELSE liveEditors
  /\ navigationGuard' = GuardCleanup(navigationGuard)
  /\ serverArticle' \in
       IF eSubmitPc = "updating" THEN {serverArticle, payload[1]}
       ELSE {serverArticle}
  /\ eLoading' = TRUE
  /\ eError' = "none"
  /\ eSubmitting' = FALSE
  /\ savedMessage' = FALSE
  /\ title' = 0
  /\ slug' = 0
  /\ contentJson' = <<>>
  /\ hasUnsavedChanges' = FALSE
  /\ editorPc' = "none"
  /\ editorDoc' = EmptyDoc
  /\ eLoadPc' = "none"
  /\ eSubmitPc' = "idle"
  /\ payload' = <<>>
  /\ UNCHANGED editorScripts

\* ArticleEditPage mounts: fresh state and ref, the guard effect registers
\* the page's guard, the load effect is about to run.
EditMount ==
  /\ navigationGuard' = "current"
  /\ eLoading' = TRUE
  /\ eError' = "none"
  /\ eSubmitting' = FALSE
  /\ savedMessage' = FALSE
  /\ title' = 0
  /\ slug' = 0
  /\ contentJson' = <<>>
  /\ hasUnsavedChanges' = FALSE
  /\ editorPc' = "none"
  /\ editorDoc' = EmptyDoc
  /\ eLoadPc' = "effect"
  /\ eSubmitPc' = "idle"
  /\ payload' = <<>>
  /\ UNCHANGED <<serverArticle, editorScripts, staleInits, orphanInits,
                 liveEditors>>

\* setPathname(path) and the commit that follows: the page of the new route
\* replaces the page of the old one.
SetPathname(path) ==
  /\ pathname' = path
  /\ IF EditMounted /\ parsePath(path).name # "articleEdit"
     THEN EditUnmount
     ELSE IF ~EditMounted /\ parsePath(path).name = "articleEdit"
     THEN EditMount
     ELSE UNCHANGED <<editVars, navigationGuard>>

\* Mutant: a declined popstate leaves the URL where the browser put it.
HandlePopState_noRestore(url, answer) ==
  IF ~canLeavePage(answer)
  THEN /\ location' = url
       /\ UNCHANGED <<pathname, editVars, navigationGuard>>
  ELSE /\ location' = url
       /\ SetPathname(url)

\* App.handlePopState with window.location.pathname = url: a declined
\* guard pushes pathnameRef.current back, otherwise setPathname(url).
HandlePopState(url, answer) ==
  IF ~canLeavePage(answer)
  THEN /\ location' = pathname
       /\ UNCHANGED <<pathname, editVars, navigationGuard>>
  ELSE /\ location' = url
       /\ SetPathname(url)

\* The answers the user can give: both if the dialog is shown; without a
\* dialog the answer is not used.
ConfirmAnswers == IF GuardAsks THEN BOOLEAN ELSE {TRUE}

navOtherVars == <<serverVars, journalVars, lastMove, logMoves, replacedIds,
                  failedRequests, viewVars, toolVars>>

\* navigate(path) from a link or button, with the answers the user gives to
\* the confirm dialogs: the guard is asked before pushState and again by the
\* popstate handler the dispatched event runs.
\* Mutant: navigate pushes the path and dispatches nothing.
Navigate_noDispatch(path, first, second) ==
  /\ location # path
  /\ lastOp' = "navigate"
  /\ disposedReturns' = 0
  /\ unloadPrevented' = FALSE
  /\ wasDirty' = hasUnsavedChanges
  /\ IF ~canLeavePage(first)
     THEN /\ confirmAnswers' = <<first>>
          /\ pushes' = 0
          /\ UNCHANGED <<location, pathname, editVars, navigationGuard>>
     ELSE /\ confirmAnswers' = IF GuardAsks THEN <<first>> ELSE <<>>
          /\ pushes' = 1
          /\ location' = path
          /\ UNCHANGED <<pathname, editVars, navigationGuard>>
  /\ UNCHANGED navOtherVars

\* Mutant: the handler that navigate dispatches does not ask again.
Navigate_asksOnce(path, first, second) ==
  /\ location # path
  /\ lastOp' = "navigate"
  /\ disposedReturns' = 0
  /\ unloadPrevented' = FALSE
  /\ wasDirty' = hasUnsavedChanges
  /\ IF ~canLeavePage(first)
     THEN /\ confirmAnswers' = <<first>>
          /\ pushes' = 0
          /\ UNCHANGED <<location, pathname, editVars, navigationGuard>>
     ELSE /\ confirmAnswers' = IF GuardAsks THEN <<first>> ELSE <<>>
          /\ pushes' = 1
          /\ HandlePopState(path, TRUE)
  /\ UNCHANGED navOtherVars

Navigate(path, first, second) ==
  /\ location # path
  /\ lastOp' = "navigate"
  /\ disposedReturns' = 0
  /\ unloadPrevented' = FALSE
  /\ wasDirty' = hasUnsavedChanges
  /\ IF ~canLeavePage(first)
     THEN /\ confirmAnswers' = <<first>>
          /\ pushes' = 0
          /\ UNCHANGED <<location, pathname, editVars, navigationGuard>>
     ELSE /\ confirmAnswers' = IF GuardAsks THEN <<first, second>> ELSE <<>>
          /\ pushes' = IF canLeavePage(second) THEN 1 ELSE 2
          /\ HandlePopState(path, second)
  /\ UNCHANGED navOtherVars

\* The browser's back or forward button: the URL becomes the path of the
\* history entry, then popstate is dispatched.
PopState(path, answer) ==
  /\ lastOp' = "popstate"
  /\ disposedReturns' = 0
  /\ unloadPrevented' = FALSE
  /\ wasDirty' = hasUnsavedChanges
  /\ confirmAnswers' = IF GuardAsks THEN <<answer>> ELSE <<>>
  /\ pushes' = IF canLeavePage(answer) THEN 0 ELSE 1
  /\ HandlePopState(path, answer)
  /\ UNCHANGED navOtherVars

\* Mutant: the handler prevents the unload whatever the ref holds.
BeforeUnload_always ==
  /\ EditMounted
  /\ unloadPrevented' = TRUE
  /\ lastOp' = "beforeUnload"
  /\ wasDirty' = hasUnsavedChanges
  /\ disposedReturns' = 0
  /\ confirmAnswers' = <<>>
  /\ pushes' = 0
  /\ UNCHANGED <<navOtherVars, navVars, editVars>>

\* beforeunload while the edit page's listener is registered (the user then
\* stays): preventDefault and returnValue only if the ref is set.
BeforeUnload ==
  /\ EditMounted
  /\ unloadPrevented' = hasUnsavedChanges
  /\ lastOp' = "beforeUnload"
  /\ wasDirty' = hasUnsavedChanges
  /\ disposedReturns' = 0
  /\ confirmAnswers' = <<>>
  /\ pushes' = 0
  /\ UNCHANGED <<navOtherVars, navVars, editVars>>

\* ArticleViewPage: loadArticle, with the articleId prop changing

ViewIds == 1..MaxViewIds

\* Collaborator: the journal an article belongs to (every article of the
\* model is in a journal of its own).
JournalOf(id) == id

\* The two requests of loadArticle's Promise.all.
ViewBatchRequests == {"listJournalArticles", "getArticleNeighbors"}

\* History: the step that ran was step op of the view page.
ViewDid(op) ==
  /\ lastOp' = op
  /\ lastMove' = <<>>
  /\ replacedIds' = <<>>
  /\ UNCHANGED <<logMoves, logVars>>

viewOtherVars == <<serverVars, journalVars, editVars, navVars, toolVars>>

\* App renders ArticleViewPage with another articleId (a prev/next link, a
\* wiki link, back/forward): the effect runs loadArticle up to its first
\* await; the calls made for the previous ids stay in flight.
ViewRoute(id) ==
  /\ id # vArticleId
  /\ Len(vLoads) < MaxViewLoads
  /\ vArticleId' = id
  /\ vLoading' = TRUE
  /\ vError' = "none"
  /\ vLoads' = Append(vLoads, [id |-> id, pc |-> "getArticle"])
  /\ failedRequests' = {}
  /\ ViewDid("viewRoute")
  /\ UNCHANGED <<viewOtherVars, vArticle, vNeighbors, vTitles>>

\* getArticle of the i-th call in flight resolved: setArticle, then the two
\* requests of the batch are issued.
ViewGetArticleOk(i) ==
  /\ vLoads[i].pc = "getArticle"
  /\ vArticle' = vLoads[i].id
  /\ vLoads' = [vLoads EXCEPT ![i].pc = "batch"]
  /\ failedRequests' = {}
  /\ ViewDid("viewGetArticleOk")
  /\ UNCHANGED <<viewOtherVars, vArticleId, vNeighbors, vTitles, vLoading,
                 vError>>

\* getArticle of the i-th call rejected: catch, finally.
ViewGetArticleFail(i) ==
  /\ vLoads[i].pc = "getArticle"
  /\ vError' = "load"
  /\ vLoading' = FALSE
  /\ vLoads' = RemoveAt(vLoads, i - 1)
  /\ failedRequests' = {"getArticle"}
  /\ ViewDid("viewGetArticleFail")
  /\ UNCHANGED <<viewOtherVars, vArticleId, vArticle, vNeighbors, vTitles>>

\* Promise.all of the i-th call resolved: setNeighbors, setArticleTitleById,
\* setArticlePreviewById, finally.
ViewBatchOk(i) ==
  /\ vLoads[i].pc = "batch"
  /\ vNeighbors' = vLoads[i].id
  /\ vTitles' = JournalOf(vLoads[i].id)
  /\ vLoading' = FALSE
  /\ vLoads' = RemoveAt(vLoads, i - 1)
  /\ failedRequests' = {}
  /\ ViewDid("viewBatchOk")
  /\ UNCHANGED <<viewOtherVars, vArticleId, vArticle, vError>>

\* Promise.all of the i-th call rejected because the requests in failed
\* rejected: catch, finally.
ViewBatchFail(i, failed) ==
  /\ vLoads[i].pc = "batch"
  /\ failed # {}
  /\ vNeighbors' =
       IF "getArticleNeighbors" \in PromiseAllUsed(ViewBatchRequests, failed)
       THEN vLoads[i].id ELSE vNeighbors
  /\ vTitles' =
       IF "listJournalArticles" \in PromiseAllUsed(ViewBatchRequests, failed)
       THEN JournalOf(vLoads[i].id) ELSE vTitles
  /\ vError' = "load"
  /\ vLoading' = FALSE
  /\ vLoads' = RemoveAt(vLoads, i - 1)
  /\ failedRequests' = failed
  /\ ViewDid("viewBatchFail")
  /\ UNCHANGED <<viewOtherVars, vArticleId, vArticle>>

\* ArticleViewPage mounted with articleId 1, its effect run up to the first
\* await of loadArticle.
ViewInit ==
  /\ vArticleId = 1
  /\ vArticle = 0
  /\ vNeighbors = 0
  /\ vTitles = 0
  /\ vLoading = TRUE
  /\ vError = "none"
  /\ vLoads = <<[id |-> 1, pc |-> "getArticle"]>>

\* No text has been highlighted yet.
HighlightIdle ==
  /\ hText = <<>>
  /\ hQuery = <<>>
  /\ hResult = [threw |-> FALSE, parts |-> <<>>]

\* ArticleViewPage as mounted: the maps are {} and blockHtml is [].
RenderIdle ==
  /\ articleTitleById = <<>>
  /\ articlePreviewById = <<>>
  /\ blockHtml = <<>>

\* No search was made: the useState values of the journal page, no tool
\* of the editor used.
SearchIdle ==
  /\ searching = FALSE
  /\ searchResults = <<>>
  /\ searchPc = "idle"
  /\ toolSearches = {}
  /\ toolEntries = <<>>
  /\ alertText = "none"
  /\ unhandledRejection = FALSE

\* The pure functions of the pages have not been applied to anything; the
\* viewed article has no blocks.
ToolsInit ==
  /\ HighlightIdle
  /\ RenderIdle
  /\ SearchIdle
  /\ relatedArticles = <<>>
  /\ blocks = <<>>

----------------------------------------------------------------------------
\* Initial states

\* ArticleEditPage as mounted: the useState and useRef initial values.
EditInit ==
  /\ serverArticle = [title |-> 1, slug |-> 1, content |-> 1]
  /\ eLoading = TRUE
  /\ eError = "none"
  /\ eSubmitting = FALSE
  /\ savedMessage = FALSE
  /\ title = 0
  /\ slug = 0
  /\ contentJson = <<>>
  /\ hasUnsavedChanges = FALSE
  /\ editorPc = "none"
  /\ editorDoc = EmptyDoc
  /\ eSubmitPc = "idle"
  /\ payload = <<>>
  /\ editorScripts = "unloaded"
  /\ staleInits = 0
  /\ orphanInits = 0
  /\ liveEditors = 0

\* App with the document opened at path: the page of its route is mounted.
AppAt(path) ==
  /\ location = path
  /\ pathname = path
  /\ navigationGuard =
       IF parsePath(path).name = "articleEdit" THEN "current" ELSE "none"
  /\ eLoadPc = IF parsePath(path).name = "articleEdit" THEN "effect"
               ELSE "none"

LogInit ==
  /\ lastMove = <<>>
  /\ replacedIds = <<>>
  /\ failedRequests = {}
  /\ disposedReturns = 0
  /\ confirmAnswers = <<>>
  /\ pushes = 0
  /\ unloadPrevented = FALSE
  /\ wasDirty = FALSE

----------------------------------------------------------------------------
\* The journal page

JournalInit ==
  /\ journal = FALSE
  /\ articles = <<>>
  /\ sequenceIds = <<>>
  /\ loading = TRUE
  /\ error = "none"
  /\ submitting = FALSE
  /\ savingSequence = FALSE
  /\ loadPc = "effect"
  /\ submitPc = "idle"
  /\ savePc = "idle"
  /\ sentIds = <<>>
  /\ saves = 0

ServerInit ==
  /\ serverArticles = <<>>
  /\ serverSeq = <<>>
  /\ nextId = 1
  /\ deletes = 0

\* The journal page opened on a new journal.
Init ==
  /\ ServerInit
  /\ JournalInit
  /\ lastOp = "init"
  /\ logMoves = FALSE
  /\ LogInit
  /\ EditInit
  /\ ViewInit
  /\ ToolsInit
  /\ AppAt(<<"journals", "1">>)

Next ==
  \/ ExternalDelete
  \/ LoadDataStart
  \/ LoadDataOk
  \/ \E failed \in SUBSET LoadDataRequests : LoadDataFail(failed)
  \/ OnSubmitStart
  \/ OnSubmitCreated
  \/ OnSubmitCreateFail
  \/ OnSubmitReloadOk
  \/ OnSubmitReloadFail
  \/ \E index \in Indices(articles), direction \in Directions :
       MoveSequenceItem(index, direction)
  \/ SaveSequenceStart
  \/ SaveSequenceOk
  \/ SaveSequenceFail

Spec == Init /\ [][Next]_vars

----------------------------------------------------------------------------
\* The loaded journal page, for every pair of lists it can hold

MoveInit ==
  /\ ServerInit
  /\ articles \in DupFreeSeqs(ArticleIds)
  /\ sequenceIds \in DupFreeSeqs(ArticleIds)
  /\ journal = TRUE
  /\ loading = FALSE
  /\ error = "none"
  /\ submitting = FALSE
  /\ savingSequence = FALSE
  /\ loadPc = "done"
  /\ submitPc = "idle"
  /\ savePc = "idle"
  /\ sentIds = <<>>
  /\ saves = 0
  /\ lastOp = "loadDataOk"
  /\ logMoves = TRUE
  /\ LogInit
  /\ EditInit
  /\ ViewInit
  /\ ToolsInit
  /\ AppAt(<<"journals", "1">>)

MoveNext ==
  \E index \in Indices(articles), direction \in Directions :
    MoveSequenceItem(index, direction)

MoveSpec == MoveInit /\ [][MoveNext]_vars

----------------------------------------------------------------------------
\* The article edit page

\* The steps of the edit page, the user typing values of the given set.
EditEvents(values) ==
  \/ LoadArticleStart
  \/ LoadArticleOk
  \/ LoadArticleFail
  \/ EditorInitOk
  \/ EditorInitFail
  \/ \E v \in values : EditTitle(v)
  \/ \E v \in values : EditSlug(v)
  \/ \E v \in values : EditorChange(v)
  \/ EditSubmitStart
  \/ EditorSaveOk
  \/ EditorSaveFail
  \/ UpdateArticleOk
  \/ UpdateArticleFail

EditNext == EditEvents(Vals)

\* The edit page of article 1 opened.
EditPageInit ==
  /\ ServerInit
  /\ JournalInit
  /\ lastOp = "init"
  /\ logMoves = FALSE
  /\ LogInit
  /\ EditInit
  /\ ViewInit
  /\ ToolsInit
  /\ AppAt(<<"articles", "1", "edit">>)

EditSpec == EditPageInit /\ [][EditNext]_vars

----------------------------------------------------------------------------
\* The App router around the edit page

\* The document opened at one of the paths, or at "/": the mount effect of
\* App then calls navigate('/journals') before its popstate listener is
\* registered, so the URL changes and the pathname state stays "/".
NavInit ==
  /\ ServerInit
  /\ JournalInit
  /\ lastOp = "init"
  /\ logMoves = FALSE
  /\ LogInit
  /\ EditInit
  /\ ViewInit
  /\ ToolsInit
  /\ \/ \E path \in NavPaths : AppAt(path)
     \/ /\ location = <<"journals">>
        /\ pathname = <<>>
        /\ navigationGuard = "none"
        /\ eLoadPc = "none"

NavNext ==
  \/ EditEvents(NavVals)
  \/ \E path \in NavPaths, first \in ConfirmAnswers :
       \E second \in IF first THEN ConfirmAnswers ELSE {FALSE} :
         Navigate(path, first, second)
  \/ \E path \in NavPaths, answer \in ConfirmAnswers : PopState(path, answer)
  \/ BeforeUnload

NavSpec == NavInit /\ [][NavNext]_vars

----------------------------------------------------------------------------
\* The loads of the journal page and of the article view page, side by side
\* (two tabs on one collaborator)

\* A journal with two articles, one of them sequenced.
LoadInit ==
  /\ serverArticles = <<1, 2>>
  /\ serverSeq = <<2>>
  /\ nextId = 3
  /\ deletes = 0
  /\ JournalInit
  /\ lastOp = "init"
  /\ logMoves = FALSE
  /\ LogInit
  /\ EditInit
  /\ ViewInit
  /\ ToolsInit
  /\ AppAt(<<"journals", "1">>)

LoadNext ==
  \/ LoadDataStart
  \/ LoadDataOk
  \/ \E failed \in SUBSET LoadDataRequests : LoadDataFail(failed)
  \/ \E id \in ViewIds : ViewRoute(id)
  \/ \E i \in DOMAIN vLoads : ViewGetArticleOk(i)
  \/ \E i \in DOMAIN vLoads : ViewGetArticleFail(i)
  \/ \E i \in DOMAIN vLoads : ViewBatchOk(i)
  \/ \E i \in DOMAIN vLoads, failed \in SUBSET ViewBatchRequests :
       ViewBatchFail(i, failed)

LoadSpec == LoadInit /\ [][LoadNext]_vars

----------------------------------------------------------------------------
\* Properties of the sequence engine

\* The order shown by the sequence editor, as ids.
Displayed == sequenceArticles(articles, sequenceIds)

\* Position of x in a list without repetitions.
Pos(s, x) == CHOOSE i \in DOMAIN s : s[i] = x

\* C1: the materialized order contains exactly the live articles: every
\* live article occurs in it exactly once and no stale id occurs in it.
C1_EachLiveArticleOnce ==
  /\ \A a \in Range(articles) :
       Cardinality({i \in DOMAIN Displayed : Displayed[i] = a}) = 1
  /\ \A i \in DOMAIN Displayed : Includes(articles, Displayed[i])

\* A sequence with a stale id, a live sequenced id and an unsequenced article.
C1_Witness ==
  /\ \E id \in Range(sequenceIds) : ~Includes(articles, id)
  /\ \E id \in Range(sequenceIds) : Includes(articles, id)
  /\ \E id \in Range(articles) : ~Includes(sequenceIds, id)

\* C2: two articles whose ids both occur in sequenceIds are shown in the
\* relative order they have in sequenceIds.
C2_SequencedKeepPersistedOrder ==
  \A i, j \in DOMAIN Displayed :
    (/\ i < j
     /\ Includes(sequenceIds, Displayed[i])
     /\ Includes(sequenceIds, Displayed[j]))
    => Pos(sequenceIds, Displayed[i]) < Pos(sequenceIds, Displayed[j])

\* Two sequenced live articles against their listing order, a stale id
\* between them.
C2_Witness == articles = <<1, 2>> /\ sequenceIds = <<2, 3, 1>>

\* C3: every unsequenced live article is shown after every sequenced one,
\* the unsequenced ones in their listing order; persisted [2,1] with the
\* listing [1,2,3] is shown as [2,1,3].
C3_UnsequencedLastInListingOrder ==
  /\ \A i, j \in DOMAIN Displayed :
       (~Includes(sequenceIds, Displayed[i])
        /\ Includes(sequenceIds, Displayed[j])) => j < i
  /\ \A i, j \in DOMAIN Displayed :
       (/\ i < j
        /\ ~Includes(sequenceIds, Displayed[i])
        /\ ~Includes(sequenceIds, Displayed[j]))
       => Pos(articles, Displayed[i]) < Pos(articles, Displayed[j])
  /\ (articles = <<1, 2, 3>> /\ sequenceIds = <<2, 1>>)
       => Displayed = <<2, 1, 3>>

C3_Witness == articles = <<1, 2, 3>> /\ sequenceIds = <<2, 1>>

\* The call m had index or index + direction outside the list it worked on.
OutOfBounds(m) ==
  LET n == Len(sequenceArticles(articles, m.before))
  IN  \/ m.index < 0
      \/ m.index >= n
      \/ m.index + m.direction < 0
      \/ m.index + m.direction >= n

\* C4 as claimed: an out-of-bounds moveSequenceItem leaves sequenceIds as it
\* found it.
C4_OutOfBoundsKeepsSequenceIds ==
  (lastMove # <<>> /\ OutOfBounds(lastMove[1]))
    => sequenceIds = lastMove[1].before

\* C4 as amended: an out-of-bounds moveSequenceItem leaves the displayed
\* order as it was and sets sequenceIds to the ids of that displayed order.
C4_OutOfBoundsKeepsDisplayedOrder ==
  (lastMove # <<>> /\ OutOfBounds(lastMove[1]))
    => /\ Displayed = sequenceArticles(articles, lastMove[1].before)
       /\ sequenceIds = sequenceArticles(articles, lastMove[1].before)

\* The last element of a list of at least two was moved down, from a
\* sequenceIds that was not the displayed order.
C4_Witness ==
  /\ lastMove # <<>>
  /\ Len(articles) >= 2
  /\ lastMove[1].index = Len(articles) - 1
  /\ lastMove[1].direction = 1
  /\ lastMove[1].before # sequenceIds

\* C5: an in-bounds moveSequenceItem exchanges the element at index with the
\* one at index + direction and leaves every other position of the order
\* as it was.
C5_InBoundsSwapsNeighbours ==
  (lastMove # <<>> /\ ~OutOfBounds(lastMove[1]))
    => LET o == sequenceArticles(articles, lastMove[1].before)
           i == lastMove[1].index + 1
           n == lastMove[1].index + lastMove[1].direction + 1
       IN  sequenceIds = [o EXCEPT ![i] = o[n], ![n] = o[i]]

C5_Witness ==
  /\ lastMove # <<>>
  /\ ~OutOfBounds(lastMove[1])
  /\ Len(articles) = 3
  /\ lastMove[1].index = 1

\* C6 as claimed: moveSequenceItem(i, +1) followed by
\* moveSequenceItem(i + 1, -1), both in bounds, restores sequenceIds to the
\* value o it had before the first call.
C6_UndoRestoresSequenceIds ==
  (lastMove # <<>> /\ lastMove[1].undoOf # <<>>)
    => sequenceIds = lastMove[1].undoOf[1]

\* C6 as amended: the two calls restore the displayed order of o, and
\* sequenceIds becomes the ids of that displayed order.
C6_UndoRestoresDisplayedOrder ==
  (lastMove # <<>> /\ lastMove[1].undoOf # <<>>)
    => /\ sequenceIds = sequenceArticles(articles, lastMove[1].undoOf[1])
       /\ Displayed = sequenceArticles(articles, lastMove[1].undoOf[1])

C6_Witness ==
  /\ lastMove # <<>>
  /\ lastMove[1].undoOf # <<>>
  /\ Len(articles) = 3
  /\ lastMove[1].before # sequenceIds

\* C7: saveSequence sends the ids of the displayed order, and on success
\* sequenceIds is the answer of the collaborator (its new persisted order).
C7_SendsDisplayedAdoptsAnswer ==
  /\ lastOp = "saveSequenceStart" => sentIds = Displayed
  /\ lastOp = "saveSequenceOk" => sequenceIds = serverSeq

\* A save answered with something else than what was sent.
C7_Witness ==
  /\ lastOp = "saveSequenceOk"
  /\ Len(sentIds) = 2
  /\ sequenceIds # sentIds

\* C8: a failed updateJournalSequence leaves sequenceIds and articles as
\* they were and shows the error.
C8_FailedSaveRetainsState ==
  [][(savePc = "saving" /\ lastOp' = "saveSequenceFail")
       => /\ sequenceIds' = sequenceIds
          /\ articles' = articles
          /\ error' = "save"]_vars

\* A save failed while the local order differs from the persisted one.
C8_Witness ==
  /\ lastOp = "saveSequenceFail"
  /\ error = "save"
  /\ sequenceIds # <<>>
  /\ sequenceIds # serverSeq

\* C9: only saveSequence calls updateJournalSequence and only its success
\* rewrites the persisted order; no step of onSubmit does either.
C9_OnlySaveSequenceRewrites ==
  [][/\ saves' # saves => lastOp' = "saveSequenceStart"
     /\ serverSeq' # serverSeq => lastOp' = "saveSequenceOk"]_vars

\* An article was created after the sequence was saved and is unsequenced.
C9_Witness ==
  /\ lastOp = "onSubmitReloadOk"
  /\ serverSeq # <<>>
  /\ sequenceIds = serverSeq
  /\ \E a \in Range(articles) : ~Includes(serverSeq, a)

----------------------------------------------------------------------------
\* Properties of the edit session

\* C10: after a title edit, a slug edit or an editor change the session is
\* dirty, whatever it was before.
C10_EditMakesDirty ==
  lastOp \in {"editTitle", "editSlug", "editorChange"} => hasUnsavedChanges

\* The editor's document was changed after a load.
C10_Witness ==
  /\ lastOp = "editorChange"
  /\ hasUnsavedChanges
  /\ title = serverArticle.title
  /\ slug = serverArticle.slug

----------------------------------------------------------------------------
\* Properties of the edit session guard

\* C11: while the edit page stays mounted, the session goes from dirty to
\* clean only in the step in which getArticle resolved or updateArticle
\* resolved: not by a failed load, a failed save, a declined or accepted
\* confirmation, or any other step.
C11_CleanOnlyByLoadOrSave ==
  [][(hasUnsavedChanges /\ ~hasUnsavedChanges' /\ EditMounted')
       => lastOp' \in {"loadArticleOk", "updateArticleOk"}]_vars

\* A dirty session was made clean by a successful save.
C11_Witness ==
  lastOp = "updateArticleOk" /\ wasDirty /\ ~hasUnsavedChanges

\* C16: a save that fails, in editor.save() or in updateArticle, shows the
\* error and keeps the edits: title, slug, the editor and its document and
\* the dirty flag are as before the step.
C16_FailedSaveKeepsEdits ==
  [][lastOp' \in {"editorSaveFail", "updateArticleFail"}
       => /\ eError' = "save"
          /\ UNCHANGED <<title, slug, editorPc, editorDoc, contentJson,
                         hasUnsavedChanges>>]_vars

\* A failed save of a dirty session whose title and document differ from
\* the stored ones, with the session still dirty.
C16_Witness ==
  /\ lastOp = "updateArticleFail"
  /\ wasDirty
  /\ hasUnsavedChanges
  /\ eError = "save"
  /\ title # serverArticle.title
  /\ editorPc = "attached"
  /\ editorDoc # serverArticle.content

\* C12: in dirty state navigate(path) to a different path asks for
\* confirmation, and whenever the user declines, no history entry is
\* pushed, the URL path and the rendered route are as before and the
\* session stays dirty.
C12_DeclinedNavigateChangesNothing ==
  [][(lastOp' = "navigate" /\ GuardAsks)
       => /\ Len(confirmAnswers') >= 1
          /\ FALSE \in Range(confirmAnswers')
               => /\ pushes' = 0
                  /\ UNCHANGED <<location, pathname>>
                  /\ hasUnsavedChanges']_vars

\* C12, as far as it holds: whichever dialog the user declines, the URL
\* path and the rendered route are as before and the session stays dirty;
\* no history entry is pushed if it is the first dialog that is declined.
C12_DeclinedNavigateKeepsView ==
  [][(lastOp' = "navigate" /\ GuardAsks)
       => /\ Len(confirmAnswers') >= 1
          /\ FALSE \in Range(confirmAnswers')
               => /\ UNCHANGED <<location, pathname>>
                  /\ hasUnsavedChanges'
          /\ confirmAnswers' = <<FALSE>> => pushes' = 0]_vars

\* The user declined the first dialog of a navigate from a dirty session.
C12_Witness ==
  /\ lastOp = "navigate"
  /\ wasDirty
  /\ confirmAnswers = <<FALSE>>
  /\ hasUnsavedChanges

\* C13: in dirty state a browser back/forward that the user declines leaves
\* the user on the current view: the pathname state and the page are as
\* before, the URL is again the path of the current view and the session
\* stays dirty.
C13_DeclinedPopStateKeepsView ==
  [][(lastOp' = "popstate" /\ GuardAsks /\ confirmAnswers' = <<FALSE>>)
       => /\ pathname' = pathname
          /\ location' = pathname
          /\ hasUnsavedChanges'
          /\ UNCHANGED <<editVars, navigationGuard>>]_vars

\* A declined back/forward from a dirty session: the handler pushed the
\* path of the current view back.
C13_Witness ==
  /\ lastOp = "popstate"
  /\ wasDirty
  /\ confirmAnswers = <<FALSE>>
  /\ pushes = 1
  /\ hasUnsavedChanges
  /\ location = pathname
  /\ EditMounted

\* C14: a beforeunload event is prevented (preventDefault, returnValue set)
\* exactly when the session is dirty; in clean state the handler leaves the
\* event alone. The handler changes nothing else.
C14_UnloadPreventedIffDirty ==
  [][lastOp' = "beforeUnload"
       => /\ unloadPrevented' <=> hasUnsavedChanges
          /\ UNCHANGED <<editVars, navVars>>]_vars

\* The unload of a dirty session was prevented.
C14_Witness ==
  lastOp = "beforeUnload" /\ wasDirty /\ hasUnsavedChanges /\ unloadPrevented

\* C15: the registered guard is the guard of the mounted edit page, and with
\* no edit page mounted navigationGuard is null; a navigation is declined
\* only with an edit page mounted.
C15_GuardOfMountedPageOnly ==
  /\ navigationGuard = IF EditMounted THEN "current" ELSE "none"
  /\ FALSE \in Range(confirmAnswers) => EditMounted

\* The user left a dirty edit page through both dialogs: the page is
\* unmounted and its guard is cleared.
C15_Witness ==
  /\ lastOp = "navigate"
  /\ wasDirty
  /\ confirmAnswers = <<TRUE, TRUE>>
  /\ ~EditMounted
  /\ navigationGuard = "none"

----------------------------------------------------------------------------
\* Properties of the loads

\* C17: a response of a load issued for an id that is no longer viewed is
\* not applied: once no load is in flight and the last one succeeded, the
\* article, the neighbours and the resolution maps shown are those of the
\* articleId of the route.
C17_SettledStateIsOfCurrentId ==
  (vLoads = <<>> /\ vError = "none")
    => /\ vArticle = vArticleId
       /\ vNeighbors = vArticleId
       /\ vTitles = JournalOf(vArticleId)

\* C18: if a request of a joined batch rejects, the load is reported as
\* failed and no result of the batch is applied: journal, articles and
\* sequenceIds on the journal page; neighbours and resolution maps on the
\* article page.
C18_FailedBatchAppliesNothing ==
  [][/\ lastOp' = "loadDataFail"
          => /\ error' = "load"
             /\ ~loading'
             /\ UNCHANGED <<journal, articles, sequenceIds>>
     /\ lastOp' = "viewBatchFail"
          => /\ vError' = "load"
             /\ ~vLoading'
             /\ UNCHANGED <<vNeighbors, vTitles, vArticle>>]_vars

\* A batch of the journal page failed in one request only, while the two
\* fulfilled requests carried data the page does not hold.
C18_Witness ==
  /\ lastOp = "loadDataFail"
  /\ failedRequests = {"getJournalSequence"}
  /\ error = "load"
  /\ serverArticles # articles
  /\ ~journal

----------------------------------------------------------------------------
\* Properties of the editor

\* C19: an init() whose effect was cleaned up while loadEditorScripts was in
\* flight constructs and attaches nothing; editorRef refers to no editor
\* or to the editor of the active effect, and every editor constructed
\* is destroyed by its cleanup: the only editor alive is the attached one.
C19_OnlyActiveEffectHasEditor ==
  /\ editorPc # "stale"
  /\ liveEditors = IF editorPc = "attached" THEN 1 ELSE 0

\* The scripts arrived after an effect had been cleaned up with its init()
\* in flight: that init() returned, the init() of the active effect
\* attached its editor.
C19_Witness ==
  /\ lastOp = "editorInitOk"
  /\ disposedReturns > 0
  /\ editorPc = "attached"
  /\ liveEditors = 1

\* C20: a save of an article whose content was not edited sends the loaded
\* document to updateArticle: the content_json of the call made without an
\* editor, and of the call made with an editor that still holds the loaded
\* document, is the document in contentJson.
C20_SaveSendsLoadedDocument ==
  [][/\ (lastOp' = "editSubmitStart" /\ eSubmitPc' = "updating"
           /\ contentJson # <<>>)
          => payload'[1].content = contentJson[1]
     /\ (lastOp' = "editorSaveOk" /\ editorDoc = contentJson[1])
          => payload'[1].content = contentJson[1]]_vars

----------------------------------------------------------------------------
\* Highlighting of the search results (JournalDetailsPage)
\*
\* A string is the sequence of its characters.

\* Characters the highlighted texts and the queries are made of: a letter in
\* both cases, white space, and two characters of pattern syntax.
Alphabet == {"a", "A", " ", ".", "("}
\* HighlightSpec: length of the highlighted text.
MaxTextLen == 3
\* HighlightSpec: length of the query.
MaxQueryLen == 2

Strings(n) == UNION {[1..k -> Alphabet] : k \in 0..n}

WhiteSpace == {" ", "\t", "\n", "\r"}

RECURSIVE trimStart(_)
trimStart(s) ==
  IF s # <<>> /\ Head(s) \in WhiteSpace THEN trimStart(Tail(s)) ELSE s

RECURSIVE trimEnd(_)
trimEnd(s) ==
  IF s # <<>> /\ s[Len(s)] \in WhiteSpace
  THEN trimEnd(SubSeq(s, 1, Len(s) - 1))
  ELSE s

\* Variant: the query is used as typed.
trim_none(s) == s

\* String.prototype.trim
trim(s) == trimEnd(trimStart(s))

LowerChar(c) ==
  CASE c = "A" -> "a"
    [] c = "B" -> "b"
    [] c = "C" -> "c"
    [] c = "D" -> "d"
    [] c = "E" -> "e"
    [] c = "F" -> "f"
    [] OTHER -> c

\* String.prototype.toLowerCase
toLowerCase(s) == [i \in 1..Len(s) |-> LowerChar(s[i])]

\* The characters of the class /[.*+?^${}()|[\]\\]/ .
SpecialChars ==
  {".", "*", "+", "?", "^", "$", "{", "}", "(", ")", "|", "[", "]", "\\"}

\* What String.prototype.replace puts for one match under the replacement
\* string of escapeRegExp. The literal '\$&' is the two characters $& (a
\* backslash before $ in a string literal is dropped), and $& stands for the
\* matched substring: the match is replaced by itself.
Replacement(match) == <<match>>

RECURSIVE escapeRegExp(_)
escapeRegExp(value) ==
  IF value = <<>> THEN <<>>
  ELSE (IF Head(value) \in SpecialChars THEN Replacement(Head(value))
        ELSE <<Head(value)>>) \o escapeRegExp(Tail(value))

\* The atoms of a pattern source made of characters, escaped characters, the
\* wildcard and groups (quantifiers, classes and alternatives are not among
\* the characters drawn).
RECURSIVE Atoms(_)
Atoms(source) ==
  IF source = <<>> THEN <<>>
  ELSE IF Head(source) = "\\" /\ Len(source) >= 2
    THEN <<[kind |-> "char", char |-> source[2]]>>
           \o Atoms(Tail(Tail(source)))
    ELSE <<[kind |-> CASE Head(source) = "." -> "any"
                       [] Head(source) = "(" -> "open"
                       [] Head(source) = ")" -> "close"
                       [] OTHER -> "char",
            char |-> Head(source)]>> \o Atoms(Tail(source))

\* Nesting depth after the first n atoms.
RECURSIVE Depth(_, _)
Depth(atoms, n) ==
  IF n = 0 THEN 0
  ELSE Depth(atoms, n - 1)
         + (CASE atoms[n].kind = "open" -> 1
              [] atoms[n].kind = "close" -> -1
              [] OTHER -> 0)

\* new RegExp(source, 'ig'): throws a SyntaxError for a group that is not
\* closed or not opened; otherwise the atoms that consume a character.
RegExp(source) ==
  LET atoms == Atoms(source)
      balanced == /\ \A n \in 1..Len(atoms) : Depth(atoms, n) >= 0
                  /\ Depth(atoms, Len(atoms)) = 0
  IN [threw |-> ~balanced,
      body |-> SelectSeq(atoms, LAMBDA a : a.kind \in {"char", "any"})]

\* One atom against one character, under the i flag.
AtomMatches(atom, c) ==
  IF atom.kind = "any" THEN c \notin {"\n", "\r"}
  ELSE LowerChar(atom.char) = LowerChar(c)

\* The pattern matches the text at offset q (0-based).
MatchesAt(body, text, q) ==
  /\ q + Len(body) <= Len(text)
  /\ \A k \in 1..Len(body) : AtomMatches(body[k], text[q + k])

\* String.prototype.split with a pattern of one capturing group around a
\* body of Len(body) >= 1 characters: the text between the matches and, after
\* each of them, the captured match; p is the end of the previous match and
\* q the offset tried next.
RECURSIVE SplitFrom(_, _, _, _)
SplitFrom(text, body, p, q) ==
  IF q + Len(body) > Len(text) THEN <<SubSeq(text, p + 1, Len(text))>>
  ELSE IF MatchesAt(body, text, q)
    THEN <<SubSeq(text, p + 1, q), SubSeq(text, q + 1, q + Len(body))>>
           \o SplitFrom(text, body, q + Len(body), q + Len(body))
    ELSE SplitFrom(text, body, p, q + 1)

split(text, body) == SplitFrom(text, body, 0, 0)

\* renderHighlightedText: whether it threw, and the parts it returned, each
\* with whether it is wrapped in <mark>.
renderHighlightedText(text, query) ==
  LET search == trim(query)
      pattern == RegExp(<<"(">> \o escapeRegExp(search) \o <<")">>)
      parts == split(text, pattern.body)
  IN IF search = <<>>
       THEN [threw |-> FALSE, parts |-> <<[text |-> text, mark |-> FALSE]>>]
     ELSE IF pattern.threw
       THEN [threw |-> TRUE, parts |-> <<>>]
     ELSE [threw |-> FALSE,
           parts |-> [i \in 1..Len(parts) |->
                        [text |-> parts[i],
                         mark |-> toLowerCase(parts[i])
                                    = toLowerCase(search)]]]

\* The search results are rendered: a title or a snippet is highlighted with
\* the query of the search field.
RenderHighlightedText ==
  /\ lastOp # "renderHighlightedText"
  /\ hResult' = renderHighlightedText(hText, hQuery)
  /\ Did("renderHighlightedText")
  /\ UNCHANGED <<serverVars, journalVars, editVars, navVars, viewVars,
                 renderVars, searchVars, hText, hQuery>>

\* The loaded journal page with search results listed, for every text
\* shown in them and every content of the search field.
HighlightInit ==
  /\ serverArticles = <<1, 2>>
  /\ serverSeq = <<>>
  /\ nextId = 3
  /\ deletes = 0
  /\ articles = <<1, 2>>
  /\ sequenceIds = <<>>
  /\ journal = TRUE
  /\ loading = FALSE
  /\ error = "none"
  /\ submitting = FALSE
  /\ savingSequence = FALSE
  /\ loadPc = "done"
  /\ submitPc = "idle"
  /\ savePc = "idle"
  /\ sentIds = <<>>
  /\ saves = 0
  /\ lastOp = "setSearchResults"
  /\ logMoves = FALSE
  /\ LogInit
  /\ EditInit
  /\ ViewInit
  /\ AppAt(<<"journals", "1">>)
  /\ hText \in Strings(MaxTextLen)
  /\ hQuery \in Strings(MaxQueryLen)
  /\ hResult = [threw |-> FALSE, parts |-> <<>>]
  /\ RenderIdle
  /\ relatedArticles = <<>>
  /\ blocks = <<>>
  /\ searching = FALSE
  /\ searchResults = <<1, 2>>
  /\ searchPc = "idle"
  /\ toolSearches = {}
  /\ toolEntries = <<>>
  /\ alertText = "none"
  /\ unhandledRejection = FALSE

HighlightNext == RenderHighlightedText

HighlightSpec == HighlightInit /\ [][HighlightNext]_vars

\* The parts of a render that show on the page: React renders no node for an
\* empty string, and text nodes that follow each other read as one span.
RECURSIVE Spans(_)
Spans(parts) ==
  IF parts = <<>> THEN <<>>
  ELSE LET rest == Spans(Tail(parts))
           part == Head(parts)
       IN IF part.text = <<>> THEN rest
          ELSE IF ~part.mark /\ rest # <<>> /\ ~Head(rest).mark
            THEN <<[text |-> part.text \o Head(rest).text, mark |-> FALSE]>>
                   \o Tail(rest)
          ELSE <<part>> \o rest

\* The text cut at the occurrences of the search string taken character by
\* character, an occurrence being a part equal to it up to case.
LiteralParts(text, search) ==
  LET parts == split(text, [i \in 1..Len(search) |->
                              [kind |-> "char", char |-> search[i]]])
  IN [i \in 1..Len(parts) |->
        [text |-> parts[i], mark |-> i % 2 = 0]]

Rendered == lastOp = "renderHighlightedText"

\* C22: the query is a literal string, not pattern syntax: whatever the text
\* and the query, renderHighlightedText does not fail and cuts the text only
\* at parts that equal the trimmed query up to case.
C22_QueryIsLiteral ==
  Rendered /\ trim(hQuery) # <<>> =>
    /\ ~hResult.threw
    /\ \A i \in DOMAIN hResult.parts :
         i % 2 = 0 =>
           toLowerCase(hResult.parts[i].text) = toLowerCase(trim(hQuery))

\* "abc def abc" and "abc"
AbcDefAbc == <<"a", "b", "c", " ", "d", "e", "f", " ", "a", "b", "c">>
Abc == <<"a", "b", "c">>

\* C23: the text is cut at the case-insensitive occurrences of the query
\* into ordered spans whose concatenation is the text, a span being marked
\* exactly when it is an occurrence of the query; "abc def abc" with query
\* "abc" gives three spans: a match, " def ", a match.
C23_SpansAreOccurrences ==
  /\ Rendered /\ trim(hQuery) # <<>> =>
       /\ ~hResult.threw
       /\ Spans(hResult.parts) = Spans(LiteralParts(hText, trim(hQuery)))
  /\ ~renderHighlightedText(AbcDefAbc, Abc).threw
  /\ Spans(renderHighlightedText(AbcDefAbc, Abc).parts)
       = <<[text |-> Abc, mark |-> TRUE],
           [text |-> <<" ", "d", "e", "f", " ">>, mark |-> FALSE],
           [text |-> Abc, mark |-> TRUE]>>

\* C24: for a query that is empty or white space only, the result is the
\* whole text as a single span that is not a match.
C24_BlankQueryNoHighlight ==
  Rendered /\ (\A i \in DOMAIN hQuery : hQuery[i] \in WhiteSpace) =>
    hResult = [threw |-> FALSE,
               parts |-> <<[text |-> hText, mark |-> FALSE]>>]

\* A white-space query was rendered over a text that contains white space.
C24_Witness ==
  /\ Rendered
  /\ hQuery = <<" ">>
  /\ \E i \in DOMAIN hText : hText[i] = " "
  /\ hResult.parts = <<[text |-> hText, mark |-> FALSE]>>

----------------------------------------------------------------------------
\* Reference resolution and rendering of the blocks (ArticleViewPage)
\*
\* A string is the sequence of its characters; "X" stands for a run of
\* LongRun characters without a line break.

\* RenderSpec: length of an article's content_text.
MaxContentLen == 5
\* RenderSpec: number of entries of an index list and of links of a text.
MaxEntries == 2

LongRun == 181
ContentAlphabet == {"x", "X", "\n"}
Contents(n) == UNION {[1..k -> ContentAlphabet] : k \in 0..n}

\* String.prototype.length
RECURSIVE length(_)
length(s) ==
  IF s = <<>> THEN 0
  ELSE (IF Head(s) = "X" THEN LongRun ELSE 1) + length(Tail(s))

\* String.prototype.split with a separator of one character.
RECURSIVE splitAt(_, _)
splitAt(s, separator) ==
  IF \A i \in DOMAIN s : s[i] # separator THEN <<s>>
  ELSE LET i == CHOOSE i \in DOMAIN s :
                  /\ s[i] = separator
                  /\ \A j \in 1..(i - 1) : s[j] # separator
       IN <<SubSeq(s, 1, i - 1)>>
            \o splitAt(SubSeq(s, i + 1, Len(s)), separator)

\* Array.prototype.slice(0, end)
slice(list, end) == SubSeq(list, 1, IF Len(list) < end THEN Len(list) ELSE end)

\* Array.prototype.join
RECURSIVE join(_, _)
join(list, separator) ==
  IF list = <<>> THEN <<>>
  ELSE IF Len(list) = 1 THEN list[1]
  ELSE list[1] \o <<separator>> \o join(Tail(list), separator)

\* a || b for strings and undefined, undefined being held as the empty
\* string (both are falsy).
Or(a, b) == IF a # <<>> THEN a ELSE b

\* (item.content_text || '').split('\n').slice(0, 2).join(' ')
previewOf(content_text) ==
  join(slice(splitAt(Or(content_text, <<>>), "\n"), 2), " ")

\* Object.fromEntries(list.map(item => [item.id, ...])): the keys, and the
\* item that counts for a key (of two items with one id, the later one).
Ids(list) == {list[i].id : i \in DOMAIN list}
LastWithId(list, id) ==
  list[CHOOSE i \in DOMAIN list :
         /\ list[i].id = id
         /\ \A j \in DOMAIN list : list[j].id = id => j <= i]

TitleMap(list) == [id \in Ids(list) |-> LastWithId(list, id).title]
PreviewMap(list) ==
  [id \in Ids(list) |-> previewOf(LastWithId(list, id).content_text)]

\* map[id], undefined being held as the empty string.
Lookup(map, id) == IF id \in DOMAIN map THEN map[id] ELSE <<>>

\* JSON values: a number, a string, null, or undefined for a missing key.
Num(k) == [type |-> "number", n |-> k, s |-> <<>>]
StrVal(chars) == [type |-> "string", n |-> 0, s |-> chars]
Null == [type |-> "null", n |-> 0, s |-> <<>>]
Undefined == [type |-> "undefined", n |-> 0, s |-> <<>>]

\* Numbers as the renderer tells them apart: NaN, or a finite integer.
NaN == [finite |-> FALSE, n |-> 0]
Finite(k) == [finite |-> TRUE, n |-> k]

Digits == {"0", "1", "2", "3", "4", "5", "6", "7", "8", "9"}
DigitValue(c) ==
  CASE c = "0" -> 0 [] c = "1" -> 1 [] c = "2" -> 2 [] c = "3" -> 3
    [] c = "4" -> 4 [] c = "5" -> 5 [] c = "6" -> 6 [] c = "7" -> 7
    [] c = "8" -> 8 [] c = "9" -> 9

RECURSIVE Decimal(_)
Decimal(s) ==
  IF s = <<>> THEN 0
  ELSE 10 * Decimal(SubSeq(s, 1, Len(s) - 1)) + DigitValue(s[Len(s)])

\* Number(string): white space is trimmed, the empty string is 0, decimal
\* digits are their value, anything else is NaN (signs, fractions and
\* exponents are not among the strings drawn).
StringToNumber(s) ==
  LET t == trim(s)
  IN IF t = <<>> THEN Finite(0)
     ELSE IF \A i \in DOMAIN t : t[i] \in Digits THEN Finite(Decimal(t))
     ELSE NaN

\* Number(value)
Number(value) ==
  CASE value.type = "number" -> Finite(value.n)
    [] value.type = "string" -> StringToNumber(value.s)
    [] value.type = "null" -> Finite(0)
    [] value.type = "undefined" -> NaN

\* `Статья #${id}`, the word being held in Latin letters.
Label(id) == <<"Statya #", ToString(id)>>

\* `/articles/${id}`
Href(id) == <<"/articles/", ToString(id)>>

\* Variant: the tooltip is the title alone.
Tooltip_titleOnly(linkTitle, preview) == linkTitle

\* preview ? `${title}\n${preview}` : title
Tooltip(linkTitle, preview) ==
  IF preview # <<>> THEN linkTitle \o <<"\n">> \o preview ELSE linkTitle

\* An anchor the renderer did not touch, and an entry it returned '' for.
NoLink ==
  [resolved |-> FALSE, href |-> <<>>, target |-> "", text |-> <<>>,
   tooltip |-> <<>>]

\* Variant: an id that no article has gets no title.
InlineTitle_noLabel(titleById, id) == Lookup(titleById, id)

\* articleTitleById[articleId] || `Статья #${articleId}`
InlineTitle(titleById, id) == Or(Lookup(titleById, id), Label(id))

\* The forEach callback over the a[data-article-id] of the text: attribute
\* is the value of data-article-id. The text of the anchor is left as it is.
ResolveAnchor(attribute, titleById, previewById) ==
  LET articleId == Number(StrVal(attribute))
      linkTitle == InlineTitle(titleById, articleId.n)
  IN IF ~articleId.finite THEN NoLink
     ELSE [resolved |-> TRUE,
           href |-> Href(articleId.n),
           target |-> "_blank",
           text |-> <<>>,
           tooltip |-> Tooltip(linkTitle, Lookup(previewById, articleId.n))]

\* Variant: the title stored in the entry is not used.
EntryTitle_noStored(titleById, id, entry) ==
  Or(Lookup(titleById, id), Label(id))

\* articleTitleById[id]
\*   || (typeof entry.title === 'string' ? entry.title : `Статья #${id}`)
EntryTitle(titleById, id, entry) ==
  Or(Lookup(titleById, id),
     IF entry.title.type = "string" THEN entry.title.s ELSE Label(id))

\* typeof entry.articleId === 'number' ? entry.articleId
\*                                     : Number(entry.articleId)
EntryId(entry) ==
  IF entry.articleId.type = "number" THEN Finite(entry.articleId.n)
  ELSE Number(entry.articleId)

\* The map callback over data.entries: the <li> of one entry, or ''.
RenderEntry(entry, titleById, previewById) ==
  LET id == EntryId(entry)
      linkTitle == EntryTitle(titleById, id.n, entry)
  IN IF ~id.finite THEN NoLink
     ELSE [resolved |-> TRUE,
           href |-> Href(id.n),
           target |-> "_blank",
           text |-> linkTitle,
           tooltip |-> Tooltip(linkTitle, Lookup(previewById, id.n))]

\* Array.prototype.filter(Boolean) over the list items: '' is dropped.
FilterBoolean(items) == SelectSeq(items, LAMBDA item : item.resolved)

\* renderBlockHtml: the links of the markup it returns. For an index list
\* these are the items of the <ul>, otherwise the anchors of the text.
renderBlockHtml(block, titleById, previewById) ==
  IF block.type = "indexList"
  THEN [tag |-> "ul",
        links |-> FilterBoolean(
                    [i \in DOMAIN block.entries |->
                       RenderEntry(block.entries[i], titleById, previewById)])]
  ELSE [tag |-> IF block.type = "header" THEN "h3" ELSE "p",
        links |-> [i \in DOMAIN block.anchors |->
                     ResolveAnchor(block.anchors[i], titleById, previewById)]]

\* The useMemo of ArticleViewPage.
\* Mutant: a render that hands back what an earlier render produced.
BlockHtml_keepsRendered(list, titleById, previewById) ==
  IF blockHtml # <<>>
    THEN blockHtml
    ELSE [i \in DOMAIN list |-> renderBlockHtml(list[i], titleById, previewById)]

BlockHtml(list, titleById, previewById) ==
  [i \in DOMAIN list |-> renderBlockHtml(list[i], titleById, previewById)]

\* Values of the data-article-id attribute of an anchor.
Attributes == {<<"1">>, <<"2">>, <<>>, <<"x">>}
\* Values of articleId and of title in an entry of an index list.
IdValues ==
  {Num(1), Num(2), StrVal(<<"1">>), StrVal(<<>>), StrVal(<<"x">>), Null,
   Undefined}
TitleValues == {StrVal(<<"F">>), Undefined}
Entries == [articleId : IdValues, title : TitleValues]

SeqsUpTo(S, n) == UNION {[1..k -> S] : k \in 0..n}

Blocks ==
  [type : {"paragraph", "header"}, anchors : SeqsUpTo(Attributes, MaxEntries),
   entries : {<<>>}]
  \cup [type : {"indexList"}, anchors : {<<>>},
        entries : SeqsUpTo(Entries, MaxEntries)]

\* Plain texts used while the blocks vary: none, and three lines.
SampleContents == {<<>>, <<"x", "\n", "x", "\n", "x">>}
\* Block used while the plain text varies: a text that links to article 1.
SampleBlock == [type |-> "paragraph", anchors |-> <<<<"1">>>>, entries |-> <<>>]

\* getArticle resolved: setArticle; the page renders the blocks with the
\* maps it has, and the batch is issued.
SetArticle ==
  /\ vLoads = <<[id |-> 1, pc |-> "getArticle"]>>
  /\ vArticle' = 1
  /\ vLoads' = <<[id |-> 1, pc |-> "batch"]>>
  /\ blockHtml' = BlockHtml(blocks, articleTitleById, articlePreviewById)
  /\ failedRequests' = {}
  /\ ViewDid("setArticle")
  /\ UNCHANGED <<serverVars, journalVars, editVars, navVars, highlightVars,
                 searchVars, vArticleId, vNeighbors, vTitles, vLoading,
                 vError, relatedArticles, blocks, articleTitleById,
                 articlePreviewById>>

\* The batch resolved: setNeighbors, setArticleTitleById,
\* setArticlePreviewById, finally; the page renders the blocks again.
SetReferenceMaps ==
  /\ vLoads = <<[id |-> 1, pc |-> "batch"]>>
  /\ vNeighbors' = 1
  /\ vTitles' = JournalOf(1)
  /\ vLoading' = FALSE
  /\ vLoads' = <<>>
  /\ articleTitleById' = TitleMap(relatedArticles)
  /\ articlePreviewById' = PreviewMap(relatedArticles)
  /\ blockHtml' = BlockHtml(blocks, articleTitleById', articlePreviewById')
  /\ failedRequests' = {}
  /\ ViewDid("setReferenceMaps")
  /\ UNCHANGED <<serverVars, journalVars, editVars, navVars, highlightVars,
                 searchVars, vArticleId, vArticle, vError, relatedArticles,
                 blocks>>

\* The view page of article 1 opened, its journal holding that article: for
\* every plain text of the article, and for every block it may consist of.
RenderInit ==
  /\ ServerInit
  /\ JournalInit
  /\ lastOp = "init"
  /\ logMoves = FALSE
  /\ LogInit
  /\ EditInit
  /\ ViewInit
  /\ AppAt(<<"articles", "1">>)
  /\ HighlightIdle
  /\ RenderIdle
  /\ SearchIdle
  /\ \E content \in Contents(MaxContentLen), block \in Blocks :
       /\ content \in SampleContents \/ block = SampleBlock
       /\ relatedArticles =
            <<[id |-> 1, title |-> <<"T">>, content_text |-> content]>>
       /\ blocks = <<block>>

RenderNext ==
  \/ SetArticle
  \/ SetReferenceMaps

RenderSpec == RenderInit /\ [][RenderNext]_vars

----------------------------------------------------------------------------
\* Properties of the reference resolution and of the rendering

\* The maps are those of the journal and the blocks were rendered with them.
Resolved == lastOp = "setReferenceMaps"

\* The block of the article, and the links rendered for it.
TheBlock == blocks[1]
TheLinks == blockHtml[1].links

\* A value that holds a number: a number, or a string of decimal digits.
Numeric(value) ==
  \/ value.type = "number"
  \/ /\ value.type = "string"
     /\ trim(value.s) # <<>>
     /\ \A i \in DOMAIN trim(value.s) : trim(value.s)[i] \in Digits

\* The entries of the index list that the renderer keeps, in stored order.
KeptEntries == SelectSeq(TheBlock.entries, LAMBDA entry : EntryId(entry).finite)

\* C25: an index-list entry whose target is not among the journal's articles
\* and that carries a stored title is rendered with that title, and the
\* entries are rendered in stored order.
C25_StoredTitleIsFallback ==
  Resolved /\ TheBlock.type = "indexList" =>
    /\ Len(TheLinks) = Len(KeptEntries)
    /\ \A i \in DOMAIN KeptEntries :
         /\ TheLinks[i].href = Href(EntryId(KeptEntries[i]).n)
         /\ /\ EntryId(KeptEntries[i]).n \notin DOMAIN articleTitleById
            /\ KeptEntries[i].title.type = "string"
            => TheLinks[i].text = KeptEntries[i].title.s

\* An index list of article 1 and, after it, of an article the journal does
\* not have, stored with the title F, was rendered.
C25_Witness ==
  /\ Resolved
  /\ TheBlock.type = "indexList"
  /\ TheBlock.entries = <<[articleId |-> Num(1), title |-> StrVal(<<"F">>)],
                          [articleId |-> Num(2), title |-> StrVal(<<"F">>)]>>
  /\ TheLinks[1].text = <<"T">>
  /\ TheLinks[2].text = <<"F">>

\* C26: an index-list entry whose target is not among the journal's articles
\* and that carries no stored title is skipped: no item is rendered for it.
C26_UnresolvableEntrySkipped ==
  Resolved /\ TheBlock.type = "indexList" =>
    \A i \in DOMAIN TheBlock.entries :
      LET entry == TheBlock.entries[i]
      IN /\ EntryId(entry).finite
         /\ EntryId(entry).n \notin DOMAIN articleTitleById
         /\ entry.title.type # "string"
         => \A j \in DOMAIN TheLinks :
              TheLinks[j].href # Href(EntryId(entry).n)

\* The links of a text, one for each anchor that carries data-article-id.
AnchorId(i) == Number(StrVal(TheBlock.anchors[i]))

\* C27: resolution of a link of a text never fails: for an id among the
\* journal's articles the title is that article's title, for any other id it
\* is the label built from the id.
C27_TitleOrLabel ==
  blockHtml # <<>> /\ TheBlock.type # "indexList" =>
    /\ Len(TheLinks) = Len(TheBlock.anchors)
    /\ \A i \in DOMAIN TheBlock.anchors :
         AnchorId(i).finite =>
           LET id == AnchorId(i).n
               expected == IF id \in DOMAIN articleTitleById
                           THEN articleTitleById[id] ELSE Label(id)
           IN /\ TheLinks[i].resolved
              /\ Len(TheLinks[i].tooltip) >= Len(expected)
              /\ SubSeq(TheLinks[i].tooltip, 1, Len(expected)) = expected

\* A text that links to article 1 and to an article the journal does not
\* have was rendered.
C27_Witness ==
  /\ Resolved
  /\ TheBlock.type = "paragraph"
  /\ TheBlock.anchors = <<<<"1">>, <<"2">>>>
  /\ TheLinks[1].tooltip = <<"T">> \o <<"\n">> \o articlePreviewById[1]
  /\ TheLinks[2].tooltip = Label(2)

\* The first two lines of a text: what precedes its second line break.
RECURSIVE FirstLines(_, _)
FirstLines(s, n) ==
  IF s = <<>> THEN <<>>
  ELSE IF Head(s) = "\n"
    THEN IF n = 1 THEN <<>> ELSE <<"\n">> \o FirstLines(Tail(s), n - 1)
    ELSE <<Head(s)>> \o FirstLines(Tail(s), n)

\* C28: the preview of an article is the first two lines of its plain text,
\* capped to a bounded length (180 characters); an id that is not among the
\* journal's articles has no preview.
C28_PreviewOfFirstTwoLinesCapped ==
  Resolved =>
    /\ DOMAIN articlePreviewById = {relatedArticles[i].id :
                                      i \in DOMAIN relatedArticles}
    /\ \A i \in DOMAIN relatedArticles :
         LET preview == articlePreviewById[relatedArticles[i].id]
             lines == FirstLines(relatedArticles[i].content_text, 2)
         IN /\ Len(preview) = Len(lines)
            /\ \A k \in DOMAIN preview :
                 preview[k] = IF lines[k] = "\n" THEN " " ELSE lines[k]
            /\ length(preview) <= 180

\* The title and the id a rendered link stands for.
LinkIds ==
  IF TheBlock.type = "indexList"
  THEN [i \in DOMAIN KeptEntries |-> EntryId(KeptEntries[i]).n]
  ELSE [i \in DOMAIN TheBlock.anchors |-> AnchorId(i).n]
LinkTitle(i) ==
  IF TheBlock.type = "indexList" THEN TheLinks[i].text
  ELSE Or(Lookup(articleTitleById, LinkIds[i]), Label(LinkIds[i]))

\* C29: for every resolved link the tooltip is the title, a line break and
\* the preview when the target has a preview, and the title alone otherwise;
\* the link points to /articles/{id} and opens in a new tab.
C29_TooltipAndTarget ==
  blockHtml # <<>> =>
    \A i \in DOMAIN TheLinks :
      TheLinks[i].resolved =>
        LET id == LinkIds[i]
            hasPreview == /\ id \in DOMAIN articlePreviewById
                          /\ articlePreviewById[id] # <<>>
        IN /\ TheLinks[i].tooltip =
                IF hasPreview
                THEN LinkTitle(i) \o <<"\n">> \o articlePreviewById[id]
                ELSE LinkTitle(i)
           /\ TheLinks[i].href = <<"/articles/", ToString(id)>>
           /\ TheLinks[i].target = "_blank"

\* Two links were rendered, one to an article that has a preview and one to
\* an article that has none.
C29_Witness ==
  /\ Resolved
  /\ Len(TheLinks) = 2
  /\ LinkIds = <<1, 2>>
  /\ articlePreviewById[1] # <<>>
  /\ TheLinks[1].tooltip = LinkTitle(1) \o <<"\n">> \o articlePreviewById[1]
  /\ TheLinks[2].tooltip = LinkTitle(2)

\* C30: a link of a text or an index-list entry whose target id is not a
\* number or is missing is dropped: the anchor is not made a resolved link,
\* the entry is left out of the list.
C30_NonNumericIdDropped ==
  blockHtml # <<>> =>
    IF TheBlock.type = "indexList"
    THEN Len(TheLinks)
           = Len(SelectSeq(TheBlock.entries,
                           LAMBDA entry : Numeric(entry.articleId)))
    ELSE \A i \in DOMAIN TheBlock.anchors :
           ~Numeric(StrVal(TheBlock.anchors[i])) => ~TheLinks[i].resolved

----------------------------------------------------------------------------
\* The article search: the search form of JournalDetailsPage, and the two
\* editor tools of ArticleEditPage that look an article up

\* SearchSpec: number of entries added with the IndexListTool.
MaxToolEntries == 1

\* What searchJournalArticles may answer.
SearchAnswers == DupFreeSeqs(Range(serverArticles))

\* Answers to the "Pick article number" prompt: 0 for a cancelled or empty
\* prompt, an index into the results, or a number that is none.
Picks(results) == 0..(Len(results) + 1)

\* onSearchSubmit up to its await. The form is rendered once journal is set
\* and its button is disabled while searching.
OnSearchSubmitStart ==
  /\ journal
  /\ searchPc = "idle"
  /\ searching' = TRUE
  /\ error' = "none"
  /\ searchPc' = "search"
  /\ alertText' = "none"
  /\ unhandledRejection' = FALSE
  /\ Did("onSearchSubmitStart")
  /\ UNCHANGED <<serverVars, journal, articles, sequenceIds, loading,
                 submitting, savingSequence, loadPc, submitPc, savePc,
                 sentIds, saves, editVars, navVars, viewVars, highlightVars,
                 renderVars, searchResults, toolSearches, toolEntries>>

\* searchJournalArticles resolved: setSearchResults, finally.
OnSearchOk(results) ==
  /\ searchPc = "search"
  /\ searchResults' = results
  /\ searching' = FALSE
  /\ searchPc' = "idle"
  /\ alertText' = "none"
  /\ unhandledRejection' = FALSE
  /\ Did("onSearchOk")
  /\ UNCHANGED <<serverVars, journalVars, editVars, navVars, viewVars,
                 highlightVars, renderVars, toolSearches, toolEntries>>

\* searchJournalArticles rejected: catch, finally.
OnSearchFail ==
  /\ searchPc = "search"
  /\ error' = "search"
  /\ searching' = FALSE
  /\ searchPc' = "idle"
  /\ alertText' = "none"
  /\ unhandledRejection' = FALSE
  /\ Did("onSearchFail")
  /\ UNCHANGED <<serverVars, journal, articles, sequenceIds, loading,
                 submitting, savingSequence, loadPc, submitPc, savePc,
                 sentIds, saves, editVars, navVars, viewVars, highlightVars,
                 renderVars, searchResults, toolSearches, toolEntries>>

\* What a tool step leaves alone apart from the editor and the tools.
toolOtherVars ==
  <<serverVars, journalVars, lastMove, logMoves, failedRequests, navVars,
    replacedIds,
    viewVars, serverArticle, eLoading, eError, eSubmitting, title, slug,
    contentJson, editorPc, eLoadPc, eSubmitPc, payload, editorScripts,
    staleInits, orphanInits, liveEditors, highlightVars, renderVars,
    searching, searchResults, searchPc>>

\* A tool of the attached editor is used, up to its await: surround() with a
\* selection and an answered "Search article" prompt, or the click on the
\* add button of an index list with a non-empty answer.
ToolSearchStart(tool) ==
  /\ editorPc = "attached"
  /\ tool \notin toolSearches
  /\ tool = "addEntry" => Len(toolEntries) < MaxToolEntries
  /\ toolSearches' = toolSearches \cup {tool}
  /\ alertText' = "none"
  /\ unhandledRejection' = FALSE
  /\ EditDid(tool \o "Start")
  /\ UNCHANGED <<toolOtherVars, editorDoc, hasUnsavedChanges, savedMessage,
                 toolEntries>>

\* searchJournalArticles of a tool resolved. Without results, and for a pick
\* that is no index, the tool alerts; for a cancelled pick it returns; else
\* it puts the anchor around the selection, or pushes the entry and renders
\* the items, and the editor's onChange sees the change of its document.
ToolSearchOk(tool, results, pick, v) ==
  /\ tool \in toolSearches
  /\ toolSearches' = toolSearches \ {tool}
  /\ unhandledRejection' = FALSE
  /\ alertText' = IF results = <<>> THEN "No articles found"
                  ELSE IF pick = Len(results) + 1 THEN "Invalid selection"
                  ELSE "none"
  /\ IF results # <<>> /\ pick \in DOMAIN results
     THEN /\ v # editorDoc
          /\ editorDoc' = v
          /\ hasUnsavedChanges' = markUnsaved(hasUnsavedChanges)
          /\ savedMessage' = FALSE
          /\ toolEntries' = IF tool = "addEntry"
                            THEN Append(toolEntries, results[pick])
                            ELSE toolEntries
     ELSE /\ v = editorDoc
          /\ UNCHANGED <<editorDoc, hasUnsavedChanges, savedMessage,
                         toolEntries>>
  /\ EditDid(tool \o "Ok")
  /\ UNCHANGED toolOtherVars

\* searchJournalArticles of a tool rejected: the await is in no try block,
\* so the promise of surround(), or of the click handler, rejects and the
\* handler ends there.
ToolSearchFail(tool) ==
  /\ tool \in toolSearches
  /\ toolSearches' = toolSearches \ {tool}
  /\ alertText' = "none"
  /\ unhandledRejection' = TRUE
  /\ EditDid(tool \o "Fail")
  /\ UNCHANGED <<toolOtherVars, editorDoc, hasUnsavedChanges, savedMessage,
                 toolEntries>>

Tools == {"surround", "addEntry"}

\* The journal page and the edit page of article 1 opened (two tabs) on a
\* journal of two articles.
SearchInit ==
  /\ serverArticles = <<1, 2>>
  /\ serverSeq = <<>>
  /\ nextId = 3
  /\ deletes = 0
  /\ JournalInit
  /\ lastOp = "init"
  /\ logMoves = FALSE
  /\ LogInit
  /\ EditInit
  /\ ViewInit
  /\ ToolsInit
  /\ AppAt(<<"articles", "1", "edit">>)

SearchNext ==
  \/ LoadDataStart
  \/ LoadDataOk
  \/ LoadArticleStart
  \/ LoadArticleOk
  \/ EditorInitOk
  \/ OnSearchSubmitStart
  \/ \E results \in SearchAnswers : OnSearchOk(results)
  \/ OnSearchFail
  \/ \E tool \in Tools : ToolSearchStart(tool)
  \/ \E tool \in Tools, results \in SearchAnswers :
       \E pick \in Picks(results), v \in Vals :
         ToolSearchOk(tool, results, pick, v)
  \/ \E tool \in Tools : ToolSearchFail(tool)

SearchSpec == SearchInit /\ [][SearchNext]_vars

\* C21: every failed collaborator call (load, save, search, persisting the
\* sequence) is shown as an error on the surface that made it and is not
\* retried by itself; this holds for the searches of the inline link tool and
\* of the index-list tool too.
C21_FailedCallShowsError ==
  /\ lastOp \in {"loadDataFail", "onSubmitCreateFail", "onSubmitReloadFail",
                 "saveSequenceFail", "onSearchFail"}
       => error # "none"
  /\ lastOp = "onSearchFail" => searchPc = "idle"
  /\ lastOp \in {"loadArticleFail", "updateArticleFail"} => eError # "none"
  /\ lastOp \in {"viewGetArticleFail", "viewBatchFail"} => vError # "none"
  /\ \A tool \in Tools :
       lastOp = tool \o "Fail" =>
         /\ eError # "none" \/ alertText # "none"
         /\ tool \notin toolSearches

----------------------------------------------------------------------------
\* More properties of the sequence engine

\* C37: the order moveSequenceItem recomputes is the displayed order, so the
\* index of a list item designates the article shown there: after an
\* in-bounds move from position i in direction d, the article that was
\* displayed at i is displayed at i + d.
C37_IndexDesignatesDisplayed ==
  /\ moveSequenceItem(sequenceIds, articles, Len(articles), 1) = Displayed
  /\ (lastMove # <<>> /\ ~OutOfBounds(lastMove[1]))
       => LET shown == sequenceArticles(articles, lastMove[1].before)
              i == lastMove[1].index + 1
          IN  Displayed[i + lastMove[1].direction] = shown[i]

\* An in-bounds move in a list of two, made while sequenceIds held an id
\* that no article has and lacked one of the articles.
C37_Witness ==
  /\ lastMove # <<>>
  /\ ~OutOfBounds(lastMove[1])
  /\ Len(articles) = 2
  /\ \E id \in Range(lastMove[1].before) : ~Includes(articles, id)
  /\ \E id \in Range(articles) : ~Includes(lastMove[1].before, id)
  /\ Displayed[lastMove[1].index + 1 + lastMove[1].direction]
       = sequenceArticles(articles, lastMove[1].before)[lastMove[1].index + 1]

\* C38: after moveSequenceItem calls, with any indices and directions, on a
\* loaded sequence without repeated ids, sequenceIds is a list without
\* repetitions of exactly the ids of the live articles.
C38_MovesKeepLiveIdsOnce ==
  lastOp = "moveSequenceItem" =>
    /\ DupFree(sequenceIds)
    /\ Range(sequenceIds) = Range(articles)
    /\ Len(sequenceIds) = Len(articles)

\* An out-of-bounds call was made while sequenceIds held an id that no
\* article has and lacked one of the articles.
C38_Witness ==
  /\ lastMove # <<>>
  /\ OutOfBounds(lastMove[1])
  /\ \E id \in Range(lastMove[1].before) : ~Includes(articles, id)
  /\ \E id \in Range(articles) : ~Includes(lastMove[1].before, id)
  /\ Range(sequenceIds) = Range(articles)


\* ---------------------------------------------------------------------------
\* The reload that follows a creation
\* ---------------------------------------------------------------------------

\* The journal page, loaded for a journal that already holds two articles and
\* any persisted sequence of them; the ids of creations to come are the lower
\* ones.
CreateInit ==
  /\ serverArticles \in DupFreeSeqs((MaxCreates + 1)..(MaxCreates + 2))
  /\ Len(serverArticles) = 2
  /\ serverSeq \in DupFreeSeqs(Range(serverArticles))
  /\ nextId = 1
  /\ deletes = 0
  /\ articles = serverArticles
  /\ sequenceIds = serverSeq
  /\ journal = TRUE
  /\ loading = FALSE
  /\ error = "none"
  /\ submitting = FALSE
  /\ savingSequence = FALSE
  /\ loadPc = "done"
  /\ submitPc = "idle"
  /\ savePc = "idle"
  /\ sentIds = <<>>
  /\ saves = 0
  /\ lastOp = "loadDataOk"
  /\ logMoves = FALSE
  /\ LogInit
  /\ EditInit
  /\ ViewInit
  /\ ToolsInit
  /\ AppAt(<<"journals", "1">>)

CreateNext ==
  \/ OnSubmitStart
  \/ OnSubmitCreated
  \/ OnSubmitCreateFail
  \/ OnSubmitReloadOk
  \/ OnSubmitReloadFail
  \/ \E index \in Indices(articles), direction \in Directions :
       MoveSequenceItem(index, direction)

CreateSpec == CreateInit /\ [][CreateNext]_vars

\* The article the last creation added.
Created == nextId - 1

\* The places of the displayed order held by articles of sequenceIds.
SequencedPlaces == {i \in DOMAIN Displayed : Includes(sequenceIds, Displayed[i])}

\* C39: when the reload that follows a successful creation has resolved,
\* sequenceIds is the sequence the collaborator persisted, whatever order the
\* page held before, and the created article is displayed after every
\* sequenced one.
C39_ReloadTakesPersistedSequence ==
  replacedIds # <<>> =>
    /\ sequenceIds = serverSeq
    /\ Includes(articles, Created) =>
         \E n \in DOMAIN Displayed :
           /\ Displayed[n] = Created
           /\ \A i \in SequencedPlaces : i < n

C39_Witness ==
  /\ replacedIds # <<>>
  /\ replacedIds[1] # sequenceIds
  /\ Range(replacedIds[1]) = Range(sequenceIds)
  /\ Len(sequenceIds) >= 2
  /\ Includes(articles, Created)
  /\ Displayed[Len(Displayed)] = Created

\* ---------------------------------------------------------------------------
\* ArticleViewPage: the content of the card
\* ---------------------------------------------------------------------------

\* JSON.stringify(article.content_json, null, 2), by its tokens; the blocks
\* are not spelled out.
stringify(list) ==
  <<"{", "\n", "  ", "\"blocks\"", ": ", "[">>
    \o [i \in DOMAIN list |-> "{...}"] \o <<"]", "\n", "}">>

\* What the card shows for the content: the rendered blocks in
\* div.content-rich if there are any, otherwise pre.content with the plain
\* text or, for want of it, the document as JSON.
CardContent(html, contentText, list) ==
  IF Len(html) > 0
    THEN [rich |-> html, pre |-> <<>>]
    ELSE [rich |-> <<>>, pre |-> Or(contentText, stringify(list))]

\* The plain text of the article on view, as the collaborator derived it.
ViewedContentText == relatedArticles[1].content_text

\* The page of article 1, for a document of no block or of one block.
DocumentInit ==
  /\ ServerInit
  /\ JournalInit
  /\ lastOp = "init"
  /\ logMoves = FALSE
  /\ LogInit
  /\ EditInit
  /\ ViewInit
  /\ AppAt(<<"articles", "1">>)
  /\ HighlightIdle
  /\ RenderIdle
  /\ SearchIdle
  /\ \E content \in Contents(MaxContentLen) :
       relatedArticles =
         <<[id |-> 1, title |-> <<"T">>, content_text |-> content]>>
  /\ blocks \in {<<>>, <<SampleBlock>>}

DocumentSpec == DocumentInit /\ [][RenderNext]_vars

\* C31: once the article is on view, a document of zero blocks displays no
\* content: neither rendered blocks nor any text, be it the plain text or the
\* document written out.
C31_EmptyDocumentShowsNothing ==
  (vArticle = 1 /\ blocks = <<>>) =>
    CardContent(blockHtml, ViewedContentText, blocks)
      = [rich |-> <<>>, pre |-> <<>>]

C33_CleanMeansSaved ==
  (contentJson # <<>> /\ ~hasUnsavedChanges) =>
    /\ title = serverArticle.title
    /\ slug = serverArticle.slug
    /\ editorPc = "attached" => editorDoc = serverArticle.content

\* C34: onSubmit asks the attached editor for its document and sends that as
\* content_json; with no editor attached when the form is submitted it sends
\* the empty document straight away; a save that succeeds stores what was
\* sent and leaves the session clean.
C34_SaveSendsEditorOutputOrEmpty ==
  [][/\ (lastOp' = "editSubmitStart" /\ editorPc = "attached")
          => eSubmitPc' = "editorSave"
     /\ lastOp' = "editorSaveOk"
          => /\ payload'[1].content = editorDoc
             /\ eSubmitPc' = "updating"
     /\ (lastOp' = "editSubmitStart" /\ editorPc # "attached")
          => /\ payload'[1].content = EmptyDoc
             /\ eSubmitPc' = "updating"
     /\ lastOp' = "updateArticleOk"
          => /\ serverArticle' = payload[1]
             /\ ~hasUnsavedChanges']_vars

\* A save made with no editor attached went through: the article holds the
\* empty document and the session is clean.
C34_Witness ==
  /\ lastOp = "updateArticleOk"
  /\ editorScripts = "failed"
  /\ editorPc # "attached"
  /\ serverArticle.content = EmptyDoc
  /\ wasDirty
  /\ ~hasUnsavedChanges

\* ---------------------------------------------------------------------------
\* More properties of navigation
\* ---------------------------------------------------------------------------

\* C35: a navigate from the edit page with unsaved changes asks in navigate
\* and, if that was accepted, asks again in the popstate handler it
\* dispatches; the route changes only when both answers were yes; a yes
\* followed by a no pushes the path of the current view back (two pushes in
\* all) and leaves the rendered route as it was.
C35_NavigateAsksTwice ==
  [][(lastOp' = "navigate" /\ GuardAsks)
       => /\ confirmAnswers' \in {<<FALSE>>, <<TRUE, FALSE>>, <<TRUE, TRUE>>}
          /\ pathname' # pathname => confirmAnswers' = <<TRUE, TRUE>>
          /\ confirmAnswers' = <<TRUE, TRUE>>
               => /\ pushes' = 1
                  /\ location' # location
                  /\ pathname' = location'
          /\ confirmAnswers' = <<TRUE, FALSE>>
               => /\ pushes' = 2
                  /\ location' = pathname
                  /\ pathname' = pathname
                  /\ hasUnsavedChanges']_vars

C35_Witness ==
  /\ lastOp = "navigate"
  /\ wasDirty
  /\ confirmAnswers = <<TRUE, FALSE>>
  /\ pushes = 2
  /\ EditMounted
  /\ location = pathname

\* C36: with no unsaved changes, or with no guard registered, a navigate to
\* another path asks nothing, pushes the path once and renders its route.
C36_CleanNavigateProceeds ==
  [][(lastOp' = "navigate" /\ ~GuardAsks)
       => /\ confirmAnswers' = <<>>
          /\ pushes' = 1
          /\ location' # location
          /\ pathname' = location']_vars

C36_Witness ==
  /\ lastOp = "navigate"
  /\ ~wasDirty
  /\ confirmAnswers = <<>>
  /\ pushes = 1
  /\ location = pathname
  /\ parsePath(pathname).name = "articleView"
  /\ editorScripts # "none"

\* ---------------------------------------------------------------------------
\* Busy flags
\* ---------------------------------------------------------------------------

\* The journal page and the edit page with their calls to the collaborator:
\* loadData, saveSequence, onSearchSubmit and the edit page's load and save.
BusyNext ==
  \/ LoadDataStart
  \/ LoadDataOk
  \/ \E failed \in SUBSET LoadDataRequests : LoadDataFail(failed)
  \/ SaveSequenceStart
  \/ SaveSequenceOk
  \/ SaveSequenceFail
  \/ OnSearchSubmitStart
  \/ \E results \in {<<>>, serverArticles} : OnSearchOk(results)
  \/ OnSearchFail
  \/ LoadArticleStart
  \/ LoadArticleOk
  \/ LoadArticleFail
  \/ EditorInitOk
  \/ EditorInitFail
  \/ EditSubmitStart
  \/ EditorSaveOk
  \/ EditorSaveFail
  \/ UpdateArticleOk
  \/ UpdateArticleFail

\* Effects run once the page is mounted, and every call to the collaborator
\* settles: it resolves or it rejects.
BusyFairness ==
  /\ WF_vars(LoadDataStart)
  /\ WF_vars(LoadDataOk \/ \E failed \in SUBSET LoadDataRequests :
                              LoadDataFail(failed))
  /\ WF_vars(SaveSequenceOk \/ SaveSequenceFail)
  /\ WF_vars((\E results \in {<<>>, serverArticles} : OnSearchOk(results))
               \/ OnSearchFail)
  /\ WF_vars(EditorSaveOk \/ EditorSaveFail)
  /\ WF_vars(UpdateArticleOk \/ UpdateArticleFail)

BusySpec == SearchInit /\ [][BusyNext]_vars /\ BusyFairness

\* C40: a page that is loading, saving the sequence, searching or submitting
\* gets its flag back to false once the call has settled, whether it resolved
\* or rejected.
C40_BusyFlagsReset ==
  /\ loading ~> ~loading
  /\ savingSequence ~> ~savingSequence
  /\ searching ~> ~searching
  /\ eSubmitting ~> ~eSubmitting

\* Calls have been rejected and no flag is left set.
C40_Witness ==
  /\ lastOp \in {"saveSequenceFail", "onSearchFail", "updateArticleFail",
                 "editorSaveFail", "loadDataFail"}
  /\ error # "none"
  /\ eError = "save"
  /\ ~loading
  /\ ~savingSequence
  /\ ~searching
  /\ ~eSubmitting
====
